---- MODULE Spec2Model ----
(***************************************************************************)
(* The SecurityOracle ledger (contracts/SecurityOracle.sol) as a state     *)
(* machine.  One action per external function of the contract; a call that *)
(* reverts leaves the storage as it was.  Every transaction is atomic and  *)
(* transactions are totally ordered by the chain, so an interleaving of    *)
(* concurrent callers is a sequence of these actions.                      *)
(*                                                                         *)
(* Each function f has an operator fOutcome, the revert reason the call    *)
(* ends with (or OK), built from the modifiers and requires in the order   *)
(* the contract evaluates them, and an action F that applies the effect    *)
(* when the outcome is OK and changes nothing otherwise.                   *)
(*                                                                         *)
(* The events a call emits are the operator fEvents.  Spec follows the     *)
(* storage alone, which no event can influence (the contract never reads   *)
(* its log); SpecLog follows the storage together with the log.            *)
(*                                                                         *)
(* SpecAnalyzer is the off-chain VulnerabilityAnalyzer (packages/analyzer) *)
(* with its two engine adapters: one action per await of analyzeContract   *)
(* and getCombinedAnalysis, the engines' availability and output chosen    *)
(* by the environment at the step that reads them.  contractName and       *)
(* timestamp of a result are not modelled.  SpecAnalyzerLive adds the      *)
(* progress the code's timeouts give; SpecAdapter follows the parse loops  *)
(* of the two adapters over outputs of their engines.                      *)
(*                                                                         *)
(* SpecIndex is the ledger with the subgraph mapping (src/mapping.ts): the *)
(* calls that emit events, each event kept with the timestamp of its       *)
(* block, and the handlers as operators on the store they load and save.   *)
(*                                                                         *)
(* SpecRoles is the role administration inherited from AccessControl, for  *)
(* every role and every account.  SpecAvailability is checkAvailability    *)
(* beside the analysis calls, on a host whose engines come and go.         *)
(* SpecBackend is scanContract of the backend's AuditController under      *)
(* concurrent requests: one action per stretch between two awaits, over    *)
(* the Audit and Contract collections.                                     *)
(***************************************************************************)
EXTENDS Integers, Sequences, FiniteSets, TLC

\* ------------------------------------------------------------------ bounds
\* vulnerability records plus audit reports the ledger may hold
MaxEntries == 2
\* type(uint256).max, scaled down: checked arithmetic reverts above it
MaxUint == 15
\* events the log may hold
MaxEvents == 3
\* detectors or issues in the output of one engine run
MaxFindings == 2
\* scanContract requests the backend serves at once
MaxRequests == 3

\* --------------------------------------------------------------- constants
DEFAULT_ADMIN_ROLE == "DEFAULT_ADMIN_ROLE"
AUDITOR_ROLE == "AUDITOR_ROLE"
REPORTER_ROLE == "REPORTER_ROLE"
Roles == {DEFAULT_ADMIN_ROLE, AUDITOR_ROLE, REPORTER_ROLE}

\* enum VulnerabilityType { REENTRANCY, ..., TX_ORIGIN }
REENTRANCY == 0
TX_ORIGIN == 7
VulnerabilityType == REENTRANCY..TX_ORIGIN

\* enum Severity { LOW, MEDIUM, HIGH, CRITICAL }
LOW == 0
MEDIUM == 1
HIGH == 2
CRITICAL == 3
Severity == LOW..CRITICAL

\* address(0)
ZeroAddress == 0

\* Every revert reason of the contract, and "ok" for a call that succeeds.
OK == "ok"
ErrUnauthorized == "AccessControlUnauthorizedAccount"
ErrEnforcedPause == "EnforcedPause"
ErrExpectedPause == "ExpectedPause"
ErrInvalidAddress == "Invalid contract address"
ErrDescription == "Description required"
ErrInvalidId == "Invalid vulnerability ID"
ErrAlreadyVerified == "Already verified"
ErrNotVerified == "Not verified"
ErrAlreadyResolved == "Already resolved"
ErrOverflow == "Panic(0x11)"
ErrNoAuditReports == "No audit reports available"

\* ------------------------------------------------------------------ inputs
\* msg.sender of the constructor, and one more externally owned account
Deployer == "deployer"
Principals == {Deployer, "alice"}
\* the zero address and two contracts
Addresses == {ZeroAddress, 1, 2}
Contracts == Addresses \ {ZeroAddress}
TypeInputs == {REENTRANCY}
SeverityInputs == {MEDIUM, CRITICAL}
\* block.timestamp of the transaction
Timestamps == {100}
\* <<_contractAddress, _severity, _description>> of reportVulnerability: both
\* severities against the first contract, a Critical report against the
\* second, a zero target and an empty description
ReportInputs ==
    ({1} \X SeverityInputs \X {"d"})
        \cup {<<2, CRITICAL, "d">>, <<ZeroAddress, CRITICAL, "d">>,
              <<1, CRITICAL, "">>}
\* <<critical, high, medium, low>>
CountInputs == {<<0, 0, 1, 2>>, <<1, 0, 0, 0>>, <<0, 1, 0, 0>>}
\* <<_contractAddress, counts>> of submitAuditReport: every count input for
\* the first contract, a secure report for the second, a zero target, and
\* counts whose sum does not fit a uint256
SubmitInputs ==
    ({1} \X CountInputs)
        \cup {<<2, <<0, 0, 1, 2>>>>, <<ZeroAddress, <<1, 0, 0, 0>>>>,
              <<1, <<0, 0, MaxUint, 1>>>>}
\* ids passed to verify / resolve: every id that can exist and one that cannot
IdInputs == 0..MaxEntries
\* grantRole / revokeRole are called for these roles on these accounts
RoleInputs == {AUDITOR_ROLE, REPORTER_ROLE}
RoleAccounts == Principals \ {Deployer}
\* scanContract: the requests served at once, the contractAddress of the body
\* (absent, or one address in two spellings), and what getCombinedAnalysis
\* settles with: the severities of the findings of a fulfilled call
Requests == 1..MaxRequests
ScanAddresses == {"", "0xAB", "0xab"}
ScanBodies ==
    [contractAddress : ScanAddresses, valid : {TRUE}]
        \cup {[contractAddress |-> "", valid |-> FALSE]}
AnalysisOutcomes ==
    [status : {"fulfilled"},
     vulnerabilities : {<<>>, <<[severity |-> "CRITICAL"]>>,
                        <<[severity |-> "MEDIUM"]>>}]
        \cup {[status |-> "rejected", vulnerabilities |-> <<>>]}
\* a request that has not arrived
IdleRequest ==
    [pc |-> "idle", contractAddress |-> "", vulnerabilities |-> <<>>,
     contract |-> [isNew |-> FALSE, totalAudits |-> 0,
                   totalVulnerabilities |-> 0, safetyStatus |-> "UNKNOWN"],
     response |-> [status |-> 0, success |-> FALSE, error |-> ""]]

VARIABLES
    roles,                 \* AccessControl._roles: role -> set of accounts
    paused,                \* Pausable._paused
    vulnerabilities,       \* mapping(uint256 => Vulnerability), ids 0..count-1
    vulnerabilityCount,    \* uint256 public vulnerabilityCount
    auditReports,          \* mapping(address => AuditReport[])
    blacklistedContracts,  \* mapping(address => bool)
    events,                \* the events of the contract, in emission order
    pc,                    \* analyzer: the await the running call is at
    op,                    \* analyzer: the method called
    config,                \* analyzer: the AnalyzerConfig of the call
    results,               \* analyzer: results of analyzeContract
    returned,              \* analyzer: what the call settled with
    adapter,               \* adapter: the parse of an engine's output
    env,                   \* host: whether the version probe of an engine
                           \* succeeds
    audits,                \* backend: the Audit collection, by auditId
    contractCollection,    \* backend: the Contract collection, by address
    requests               \* backend: the scanContract requests in progress

vars == <<roles, paused, vulnerabilities, vulnerabilityCount, auditReports,
          blacklistedContracts>>

ledger == <<vulnerabilities, vulnerabilityCount, auditReports,
            blacklistedContracts>>

logVars == <<vars, events>>

avars == <<pc, op, config, results, returned>>

dbVars == <<audits, contractCollection, requests>>

hostVars == <<env, dbVars>>

\* ------------------------------------------------------------ construction
Init ==
    /\ roles = [r \in Roles |-> {Deployer}]
    /\ paused = FALSE
    /\ vulnerabilities = <<>>
    /\ vulnerabilityCount = 0
    /\ auditReports = [a \in Addresses |-> <<>>]
    /\ blacklistedContracts = [a \in Addresses |-> FALSE]
    /\ events = <<>>
    /\ pc = "idle"
    /\ op = "none"
    /\ config = [excludeInformational |-> FALSE]
    /\ results = <<>>
    /\ returned = [status |-> "pending"]
    /\ adapter = [pc |-> "idle", engine |-> "none", output |-> <<>>,
                  vulnerabilities |-> <<>>]
    /\ env = [slither |-> FALSE, mythril |-> FALSE, stable |-> TRUE]
    /\ audits = [id \in {} |-> id]
    /\ contractCollection = [address \in {} |-> address]
    /\ requests = [r \in Requests |-> IdleRequest]

\* ------------------------------------------------------------------ helpers
hasRole(role, account) == account \in roles[role]

\* vulnerabilities[id] of the contract: the sequence holds id at place id + 1
vuln(id) == vulnerabilities[id + 1]

\* bug: the flag of every address is set
_blacklistContract_all(bl, a) == [x \in DOMAIN bl |-> TRUE]

_blacklistContract(bl, a) == [bl EXCEPT ![a] = TRUE]

\* ------------------------------------------------------ reportVulnerability
\* The modifiers run first and in the order written, then the two requires.
\* bug: the "Description required" requirement is missing
reportVulnerabilityOutcome_anyDescription(sender, c, d) ==
    IF ~hasRole(REPORTER_ROLE, sender) THEN ErrUnauthorized
    ELSE IF paused THEN ErrEnforcedPause
    ELSE IF c = ZeroAddress THEN ErrInvalidAddress
    ELSE OK

reportVulnerabilityOutcome(sender, c, d) ==
    IF ~hasRole(REPORTER_ROLE, sender) THEN ErrUnauthorized
    ELSE IF paused THEN ErrEnforcedPause
    ELSE IF c = ZeroAddress THEN ErrInvalidAddress
    ELSE IF d = "" THEN ErrDescription
    ELSE OK

\* bug: the counter is incremented before its value is taken
vulnId_preIncrement == vulnerabilityCount + 1

\* uint256 vulnId = vulnerabilityCount++: the id stored under and returned
vulnId == vulnerabilityCount

newVulnerability(sender, c, t, s, d, now) ==
    [contractAddress |-> c, vulnType |-> t, severity |-> s, description |-> d,
     timestamp |-> now, reporter |-> sender, verified |-> FALSE,
     resolved |-> FALSE]

\* bug: the auto-blacklist compares with the wrong enum member
reportBlacklists_high(s) == s = HIGH

\* Auto-blacklist contracts with critical vulnerabilities
reportBlacklists(s) == s = CRITICAL

ReportVulnerability(sender, c, t, s, d, now) ==
    IF reportVulnerabilityOutcome(sender, c, d) = OK
    THEN /\ vulnerabilityCount' = vulnerabilityCount + 1
         /\ vulnerabilities' =
                Append(vulnerabilities, newVulnerability(sender, c, t, s, d, now))
         /\ blacklistedContracts' =
                IF reportBlacklists(s)
                THEN _blacklistContract(blacklistedContracts, c)
                ELSE blacklistedContracts
         /\ UNCHANGED <<roles, paused, auditReports>>
    ELSE UNCHANGED vars

\* ------------------------------------- verifyVulnerability / resolveVulnerability
\* bug: verify is guarded by the reporter role
verifyVulnerabilityOutcome_reporterRole(sender, id) ==
    IF ~hasRole(REPORTER_ROLE, sender) THEN ErrUnauthorized
    ELSE IF ~(id < vulnerabilityCount) THEN ErrInvalidId
    ELSE IF vuln(id).verified THEN ErrAlreadyVerified
    ELSE OK

\* bug: the "Already verified" requirement is missing
verifyVulnerabilityOutcome_repeatable(sender, id) ==
    IF ~hasRole(AUDITOR_ROLE, sender) THEN ErrUnauthorized
    ELSE IF ~(id < vulnerabilityCount) THEN ErrInvalidId
    ELSE OK

verifyVulnerabilityOutcome(sender, id) ==
    IF ~hasRole(AUDITOR_ROLE, sender) THEN ErrUnauthorized
    ELSE IF ~(id < vulnerabilityCount) THEN ErrInvalidId
    ELSE IF vuln(id).verified THEN ErrAlreadyVerified
    ELSE OK

\* bug: verify closes the record as well
VerifyVulnerability_alsoResolves(sender, id) ==
    IF verifyVulnerabilityOutcome(sender, id) = OK
    THEN /\ vulnerabilities' =
                [vulnerabilities EXCEPT ![id + 1].verified = TRUE,
                                        ![id + 1].resolved = TRUE]
         /\ UNCHANGED <<roles, paused, vulnerabilityCount, auditReports,
                        blacklistedContracts>>
    ELSE UNCHANGED vars

VerifyVulnerability(sender, id) ==
    IF verifyVulnerabilityOutcome(sender, id) = OK
    THEN /\ vulnerabilities' =
                [vulnerabilities EXCEPT ![id + 1].verified = TRUE]
         /\ UNCHANGED <<roles, paused, vulnerabilityCount, auditReports,
                        blacklistedContracts>>
    ELSE UNCHANGED vars

\* bug: the "Not verified" requirement is written without its negation
resolveVulnerabilityOutcome_inverted(sender, id) ==
    IF ~hasRole(AUDITOR_ROLE, sender) THEN ErrUnauthorized
    ELSE IF ~(id < vulnerabilityCount) THEN ErrInvalidId
    ELSE IF vuln(id).verified THEN ErrNotVerified
    ELSE IF vuln(id).resolved THEN ErrAlreadyResolved
    ELSE OK

\* bug: the "Not verified" requirement is missing
resolveVulnerabilityOutcome_skipsVerify(sender, id) ==
    IF ~hasRole(AUDITOR_ROLE, sender) THEN ErrUnauthorized
    ELSE IF ~(id < vulnerabilityCount) THEN ErrInvalidId
    ELSE IF vuln(id).resolved THEN ErrAlreadyResolved
    ELSE OK

\* bug: the state requirements are evaluated before the id is checked; the
\* mapping reads an absent record as all zeroes (verified = false)
resolveVulnerabilityOutcome_stateFirst(sender, id) ==
    IF ~hasRole(AUDITOR_ROLE, sender) THEN ErrUnauthorized
    ELSE IF ~(id < vulnerabilityCount /\ vuln(id).verified) THEN ErrNotVerified
    ELSE IF vuln(id).resolved THEN ErrAlreadyResolved
    ELSE OK

resolveVulnerabilityOutcome(sender, id) ==
    IF ~hasRole(AUDITOR_ROLE, sender) THEN ErrUnauthorized
    ELSE IF ~(id < vulnerabilityCount) THEN ErrInvalidId
    ELSE IF ~vuln(id).verified THEN ErrNotVerified
    ELSE IF vuln(id).resolved THEN ErrAlreadyResolved
    ELSE OK

\* bug: resolving a vulnerability takes its contract off the blacklist
ResolveVulnerability_whitelists(sender, id) ==
    IF resolveVulnerabilityOutcome(sender, id) = OK
    THEN /\ vulnerabilities' =
                [vulnerabilities EXCEPT ![id + 1].resolved = TRUE]
         /\ blacklistedContracts' =
                [blacklistedContracts EXCEPT
                    ![vuln(id).contractAddress] = FALSE]
         /\ UNCHANGED <<roles, paused, vulnerabilityCount, auditReports>>
    ELSE UNCHANGED vars

ResolveVulnerability(sender, id) ==
    IF resolveVulnerabilityOutcome(sender, id) = OK
    THEN /\ vulnerabilities' =
                [vulnerabilities EXCEPT ![id + 1].resolved = TRUE]
         /\ UNCHANGED <<roles, paused, vulnerabilityCount, auditReports,
                        blacklistedContracts>>
    ELSE UNCHANGED vars

\* -------------------------------------------------------- submitAuditReport
\* bug: whenNotPaused is missing on submitAuditReport
submitAuditReportOutcome_noPauseCheck(sender, c, n) ==
    IF ~hasRole(AUDITOR_ROLE, sender) THEN ErrUnauthorized
    ELSE IF c = ZeroAddress THEN ErrInvalidAddress
    ELSE IF n[1] + n[2] + n[3] + n[4] > MaxUint THEN ErrOverflow
    ELSE OK

\* bug: the requirement on the address is missing
submitAuditReportOutcome_anyAddress(sender, c, n) ==
    IF ~hasRole(AUDITOR_ROLE, sender) THEN ErrUnauthorized
    ELSE IF paused THEN ErrEnforcedPause
    ELSE IF n[1] + n[2] + n[3] + n[4] > MaxUint THEN ErrOverflow
    ELSE OK

\* n = <<critical, high, medium, low>>; the sum is checked uint256 arithmetic
submitAuditReportOutcome(sender, c, n) ==
    IF ~hasRole(AUDITOR_ROLE, sender) THEN ErrUnauthorized
    ELSE IF paused THEN ErrEnforcedPause
    ELSE IF c = ZeroAddress THEN ErrInvalidAddress
    ELSE IF n[1] + n[2] + n[3] + n[4] > MaxUint THEN ErrOverflow
    ELSE OK

\* bug: the high count is left out of the verdict
isSecureOf_criticalOnly(critical, high) == critical = 0

isSecureOf(critical, high) == critical = 0 /\ high = 0

newAuditReport(sender, c, critical, high, medium, low, now) ==
    [contractAddress |-> c,
     totalVulnerabilities |-> critical + high + medium + low,
     criticalCount |-> critical, highCount |-> high, mediumCount |-> medium,
     lowCount |-> low, isSecure |-> isSecureOf(critical, high),
     timestamp |-> now, auditor |-> sender]

\* bug: the audit never blacklists
auditBlacklists_never(critical) == FALSE

auditBlacklists(critical) == critical > 0

\* bug: the new report is placed before the older ones
SubmitAuditReport_pushFront(sender, c, critical, high, medium, low, now) ==
    IF submitAuditReportOutcome(sender, c, <<critical, high, medium, low>>)
            = OK
    THEN /\ auditReports' =
                [auditReports EXCEPT ![c] =
                    <<newAuditReport(sender, c, critical, high, medium, low,
                                     now)>> \o @]
         /\ blacklistedContracts' =
                IF auditBlacklists(critical)
                THEN _blacklistContract(blacklistedContracts, c)
                ELSE blacklistedContracts
         /\ UNCHANGED <<roles, paused, vulnerabilities, vulnerabilityCount>>
    ELSE UNCHANGED vars

SubmitAuditReport(sender, c, critical, high, medium, low, now) ==
    IF submitAuditReportOutcome(sender, c, <<critical, high, medium, low>>)
            = OK
    THEN /\ auditReports' =
                [auditReports EXCEPT ![c] =
                    Append(@, newAuditReport(sender, c, critical, high, medium,
                                             low, now))]
         /\ blacklistedContracts' =
                IF auditBlacklists(critical)
                THEN _blacklistContract(blacklistedContracts, c)
                ELSE blacklistedContracts
         /\ UNCHANGED <<roles, paused, vulnerabilities, vulnerabilityCount>>
    ELSE UNCHANGED vars

\* ------------------------------------------------------------------ queries
\* bug: a contract without any audit report counts as safe
isContractSafe_unauditedSafe(c) ==
    IF blacklistedContracts[c] THEN FALSE
    ELSE IF Len(auditReports[c]) = 0 THEN TRUE
    ELSE auditReports[c][Len(auditReports[c])].isSecure

isContractSafe(c) ==
    IF blacklistedContracts[c] THEN FALSE
    ELSE IF Len(auditReports[c]) = 0 THEN FALSE
    ELSE auditReports[c][Len(auditReports[c])].isSecure

\* bug: the scratch array is returned without being cut to the count
getContractVulnerabilities_untrimmed(c) ==
    [k \in 1..vulnerabilityCount |->
        IF vuln(k - 1).contractAddress = c THEN k - 1 ELSE 0]

\* the first loop: tempIds is the scratch array, count the filled prefix;
\* the second loop copies that prefix into the result
RECURSIVE collectIds(_, _, _, _)
collectIds(c, i, tempIds, count) ==
    IF i >= vulnerabilityCount
    THEN [k \in 1..count |-> tempIds[k]]
    ELSE IF vuln(i).contractAddress = c
         THEN collectIds(c, i + 1, [tempIds EXCEPT ![count + 1] = i], count + 1)
         ELSE collectIds(c, i + 1, tempIds, count)

getContractVulnerabilities(c) ==
    collectIds(c, 0, [k \in 1..vulnerabilityCount |-> 0], 0)

getLatestAuditReportOutcome(c) ==
    IF ~(Len(auditReports[c]) > 0) THEN ErrNoAuditReports ELSE OK

\* ------------------------------------------ blacklistContract / whitelistContract
blacklistContractOutcome(sender) ==
    IF ~hasRole(AUDITOR_ROLE, sender) THEN ErrUnauthorized ELSE OK

BlacklistContract(sender, c) ==
    IF blacklistContractOutcome(sender) = OK
    THEN /\ blacklistedContracts' = _blacklistContract(blacklistedContracts, c)
         /\ UNCHANGED <<roles, paused, vulnerabilities, vulnerabilityCount,
                        auditReports>>
    ELSE UNCHANGED vars

whitelistContractOutcome(sender) ==
    IF ~hasRole(DEFAULT_ADMIN_ROLE, sender) THEN ErrUnauthorized ELSE OK

\* bug: whitelisting also drops the audit history of the contract
WhitelistContract_dropsHistory(sender, c) ==
    IF whitelistContractOutcome(sender) = OK
    THEN /\ blacklistedContracts' = [blacklistedContracts EXCEPT ![c] = FALSE]
         /\ auditReports' = [auditReports EXCEPT ![c] = <<>>]
         /\ UNCHANGED <<roles, paused, vulnerabilities, vulnerabilityCount>>
    ELSE UNCHANGED vars

WhitelistContract(sender, c) ==
    IF whitelistContractOutcome(sender) = OK
    THEN /\ blacklistedContracts' = [blacklistedContracts EXCEPT ![c] = FALSE]
         /\ UNCHANGED <<roles, paused, vulnerabilities, vulnerabilityCount,
                        auditReports>>
    ELSE UNCHANGED vars

\* ----------------------------------------------------------- pause / unpause
pauseOutcome(sender) ==
    IF ~hasRole(DEFAULT_ADMIN_ROLE, sender) THEN ErrUnauthorized
    ELSE IF paused THEN ErrEnforcedPause
    ELSE OK

Pause(sender) ==
    IF pauseOutcome(sender) = OK
    THEN /\ paused' = TRUE
         /\ UNCHANGED <<roles, ledger>>
    ELSE UNCHANGED vars

unpauseOutcome(sender) ==
    IF ~hasRole(DEFAULT_ADMIN_ROLE, sender) THEN ErrUnauthorized
    ELSE IF ~paused THEN ErrExpectedPause
    ELSE OK

Unpause(sender) ==
    IF unpauseOutcome(sender) = OK
    THEN /\ paused' = FALSE
         /\ UNCHANGED <<roles, ledger>>
    ELSE UNCHANGED vars

\* ----------------------------------- grantRole / revokeRole (AccessControl)
\* The admin role of every role is DEFAULT_ADMIN_ROLE.
\* bug: anybody may grant and revoke
grantRoleOutcome_open(sender) == OK

grantRoleOutcome(sender) ==
    IF ~hasRole(DEFAULT_ADMIN_ROLE, sender) THEN ErrUnauthorized ELSE OK

GrantRole(sender, role, account) ==
    IF grantRoleOutcome(sender) = OK
    THEN /\ roles' = [roles EXCEPT ![role] = @ \cup {account}]
         /\ UNCHANGED <<paused, ledger>>
    ELSE UNCHANGED vars

RevokeRole(sender, role, account) ==
    IF grantRoleOutcome(sender) = OK
    THEN /\ roles' = [roles EXCEPT ![role] = @ \ {account}]
         /\ UNCHANGED <<paused, ledger>>
    ELSE UNCHANGED vars

\* ------------------------------------------------- analyzer: engine output
\* output.results.detectors of Slither: check, impact, description and the
\* first line of the first element
SlitherDetectors ==
    {[check |-> "reentrancy-eth", impact |-> "High", description |-> "d1",
      line |-> 10],
     [check |-> "reentrancy-benign", impact |-> "Low", description |-> "d1",
      line |-> 20],
     [check |-> "tx-origin", impact |-> "Medium", description |-> "d1",
      line |-> 30],
     [check |-> "pragma", impact |-> "Informational", description |-> "d2",
      line |-> 1]}

\* output.issues of Mythril: swcID, title, severity, description and the
\* start of the source map; one severity is a label the adapter has no
\* entry for
MythrilIssues ==
    {[swcID |-> "107", title |-> "External Call",
      severity |-> "Unknown", description |-> "d1", line |-> 11],
     [swcID |-> "", title |-> "Integer Overflow",
      severity |-> "High", description |-> "d3", line |-> 40],
     [swcID |-> "113", title |-> "Multiple Calls",
      severity |-> "informational", description |-> "d2", line |-> 2]}

\* the lists of at most MaxFindings members of S
Lists(S) == UNION {[1..n -> S] : n \in 0..MaxFindings}

\* How one run of an engine ends: the availability probe analyze makes
\* itself, the exit code of the process, whether JSON.parse accepts its
\* stdout, the detectors or issues parsed from it, and the time taken. An
\* engine that is not installed is never started: it has no output.
EngineRuns(S) ==
    {run \in [installed : BOOLEAN, exit : {0, 1}, parseable : BOOLEAN,
              output : Lists(S), elapsed : {1, 2}] :
        /\ ~run.installed => (run.exit = 1 /\ ~run.parseable /\ run.elapsed = 1)
        /\ ~run.parseable => run.output = <<>>}

\* the runs of slither and of myth
SlitherRuns == EngineRuns(SlitherDetectors)

MythrilRuns == EngineRuns(MythrilIssues)

ConfigInputs == [excludeInformational : BOOLEAN]

\* ------------------------------------------------------ analyzer: adapters
\* enum VulnerabilityType
VulnerabilityTypes ==
    {"REENTRANCY", "INTEGER_OVERFLOW", "INTEGER_UNDERFLOW", "ACCESS_CONTROL",
     "FRONT_RUNNING", "TIMESTAMP_DEPENDENCY", "UNCHECKED_CALL", "DELEGATECALL",
     "TX_ORIGIN", "UNINITIALIZED_STORAGE", "DENIAL_OF_SERVICE",
     "WEAK_RANDOMNESS"}

SlitherTypes ==
    ("reentrancy-eth" :> "REENTRANCY") @@ ("reentrancy-no-eth" :> "REENTRANCY")
    @@ ("reentrancy-benign" :> "REENTRANCY")
    @@ ("controlled-delegatecall" :> "DELEGATECALL")
    @@ ("tx-origin" :> "TX_ORIGIN") @@ ("timestamp" :> "TIMESTAMP_DEPENDENCY")
    @@ ("unchecked-lowlevel" :> "UNCHECKED_CALL")
    @@ ("unchecked-send" :> "UNCHECKED_CALL") @@ ("suicidal" :> "ACCESS_CONTROL")
    @@ ("arbitrary-send" :> "ACCESS_CONTROL")
    @@ ("uninitialized-storage" :> "UNINITIALIZED_STORAGE")
    @@ ("weak-prng" :> "WEAK_RANDOMNESS")

\* mapping[detector] || VulnerabilityType.ACCESS_CONTROL
mapDetectorToType(detector) ==
    IF detector \in DOMAIN SlitherTypes THEN SlitherTypes[detector]
    ELSE "ACCESS_CONTROL"

SlitherSeverities ==
    [High |-> "CRITICAL", Medium |-> "HIGH", Low |-> "MEDIUM",
     Informational |-> "INFORMATIONAL", Optimization |-> "INFORMATIONAL"]

\* mapping[impact] || Severity.LOW
Slither_mapSeverity(impact) ==
    IF impact \in DOMAIN SlitherSeverities THEN SlitherSeverities[impact]
    ELSE "LOW"

parseSlitherOutput(detectors) ==
    [k \in 1..Len(detectors) |->
        [type |-> mapDetectorToType(detectors[k].check),
         severity |-> Slither_mapSeverity(detectors[k].impact),
         title |-> detectors[k].check,
         description |-> detectors[k].description,
         line |-> detectors[k].line]]

\* String.prototype.toLowerCase, letter by letter
LowerCase ==
    [A |-> "a", B |-> "b", C |-> "c", D |-> "d", E |-> "e", F |-> "f",
     G |-> "g", H |-> "h", I |-> "i", J |-> "j", K |-> "k", L |-> "l",
     M |-> "m", N |-> "n", O |-> "o", P |-> "p", Q |-> "q", R |-> "r",
     S |-> "s", T |-> "t", U |-> "u", V |-> "v", W |-> "w", X |-> "x",
     Y |-> "y", Z |-> "z"]

RECURSIVE toLowerCase(_)
toLowerCase(str) ==
    IF Len(str) = 0 THEN ""
    ELSE LET ch == SubSeq(str, 1, 1) IN
         (IF ch \in DOMAIN LowerCase THEN LowerCase[ch] ELSE ch)
             \o toLowerCase(Tail(str))

\* String.prototype.includes
includes(str, word) ==
    \E k \in 1..(Len(str) - Len(word) + 1) :
        SubSeq(str, k, k + Len(word) - 1) = word

\* VulnerabilityType.DOS is no member of the enum: the entry of "113" is
\* undefined
Undefined == "undefined"

SwcTypes ==
    ("107" :> "REENTRANCY") @@ ("116" :> "TIMESTAMP_DEPENDENCY")
    @@ ("115" :> "TX_ORIGIN") @@ ("112" :> "DELEGATECALL")
    @@ ("105" :> "ACCESS_CONTROL") @@ ("106" :> "ACCESS_CONTROL")
    @@ ("101" :> "INTEGER_OVERFLOW") @@ ("113" :> Undefined)
    @@ ("114" :> "TX_ORIGIN") @@ ("120" :> "WEAK_RANDOMNESS")
    @@ ("104" :> "UNCHECKED_CALL")

mapIssueToType(swcID, title) ==
    IF swcID # "" /\ swcID \in DOMAIN SwcTypes /\ SwcTypes[swcID] # Undefined
    THEN SwcTypes[swcID]
    ELSE LET titleLower == toLowerCase(title) IN
         IF includes(titleLower, "reentrancy") THEN "REENTRANCY"
         ELSE IF includes(titleLower, "timestamp") THEN "TIMESTAMP_DEPENDENCY"
         ELSE IF includes(titleLower, "tx.origin") THEN "TX_ORIGIN"
         ELSE IF includes(titleLower, "delegatecall") THEN "DELEGATECALL"
         ELSE IF includes(titleLower, "overflow")
                    \/ includes(titleLower, "underflow")
              THEN "INTEGER_OVERFLOW"
         ELSE IF includes(titleLower, "access control") THEN "ACCESS_CONTROL"
         ELSE IF includes(titleLower, "randomness") THEN "WEAK_RANDOMNESS"
         ELSE "ACCESS_CONTROL"

MythrilSeverities ==
    [high |-> "CRITICAL", medium |-> "HIGH", low |-> "MEDIUM",
     informational |-> "INFORMATIONAL"]

\* bug: the label is looked up as the engine spelled it
Mythril_mapSeverity_caseSensitive(severity) ==
    IF severity \in DOMAIN MythrilSeverities
    THEN MythrilSeverities[severity]
    ELSE "LOW"

\* mapping[severity.toLowerCase()] || Severity.LOW
Mythril_mapSeverity(severity) ==
    LET severityLower == toLowerCase(severity) IN
    IF severityLower \in DOMAIN MythrilSeverities
    THEN MythrilSeverities[severityLower]
    ELSE "LOW"

parseMythrilOutput(issues) ==
    [k \in 1..Len(issues) |->
        [type |-> mapIssueToType(issues[k].swcID, issues[k].title),
         severity |-> Mythril_mapSeverity(issues[k].severity),
         title |-> issues[k].title,
         description |-> issues[k].description,
         line |-> issues[k].line]]

\* vulnerabilities.filter((v) => v.severity === severity).length
countOf(vs, severity) ==
    Cardinality({k \in 1..Len(vs) :
                    vs[k].severity = severity})

\* bug: the high count compares with the wrong member of Severity
calculateSummary_highIsMedium(vs) ==
    [total |-> Len(vs),
     critical |-> countOf(vs, "CRITICAL"),
     high |-> countOf(vs, "MEDIUM"),
     medium |-> countOf(vs, "MEDIUM"),
     low |-> countOf(vs, "LOW"),
     informational |-> countOf(vs, "INFORMATIONAL")]

calculateSummary(vs) ==
    [total |-> Len(vs),
     critical |-> countOf(vs, "CRITICAL"),
     high |-> countOf(vs, "HIGH"),
     medium |-> countOf(vs, "MEDIUM"),
     low |-> countOf(vs, "LOW"),
     informational |-> countOf(vs, "INFORMATIONAL")]

\* vulnerabilities.filter((v) => v.severity !== Severity.INFORMATIONAL)
withoutInformational(vs) ==
    SelectSeq(vs, LAMBDA v : v.severity # "INFORMATIONAL")

\* The AnalysisResult both adapters build: the summary is computed from the
\* parsed list, the returned list is filtered afterwards.
analysisResult(name, vs, cfg, executionTime) ==
    LET summary == calculateSummary(vs) IN
    [analyzer |-> name,
     vulnerabilities |-> IF cfg.excludeInformational
                         THEN withoutInformational(vs)
                         ELSE vs,
     summary |-> summary,
     isSecure |-> summary.critical = 0 /\ summary.high = 0,
     executionTime |-> executionTime]

\* execAsync rejects on a non-zero exit code and on a timeout; every error
\* inside the try block is rethrown as "Slither analysis failed"
Slither_succeeds(run) == run.installed /\ run.exit = 0 /\ run.parseable

Slither_analyze(run, cfg) ==
    analysisResult("Slither", parseSlitherOutput(run.output), cfg, run.elapsed)

\* a rejected execAsync whose error carries parseable stdout still gives a
\* result
Mythril_succeeds(run) == run.installed /\ run.parseable

Mythril_analyze(run, cfg) ==
    analysisResult("Mythril", parseMythrilOutput(run.output), cfg, run.elapsed)

\* ------------------------------------------------- analyzer: parse loops
\* Detectors an adapter may be handed: checks of the table and others,
\* the impacts slither reports and labels the table does not hold
AdapterDetectors ==
    {[check |-> "reentrancy-eth", impact |-> "High", description |-> "d1",
      line |-> 10],
     [check |-> "tx-origin", impact |-> "Medium", description |-> "d1",
      line |-> 10],
     [check |-> "timestamp", impact |-> "Low", description |-> "d1",
      line |-> 10],
     [check |-> "pragma", impact |-> "Informational", description |-> "d1",
      line |-> 10],
     [check |-> "costly-loop", impact |-> "Optimization",
      description |-> "d1", line |-> 10],
     [check |-> "weak-prng", impact |-> "high", description |-> "d1",
      line |-> 10],
     [check |-> "suicidal", impact |-> "Critical", description |-> "d1",
      line |-> 10],
     [check |-> "Reentrancy-Eth", impact |-> "", description |-> "d1",
      line |-> 10]}

\* Issues an adapter may be handed: identifiers of the table, none, and
\* one the table does not hold; titles with none, one and two of the
\* keywords; severities in several spellings and unknown labels
AdapterIssues ==
    {[swcID |-> "107", title |-> "Integer Overflow", severity |-> "High",
      description |-> "d1", line |-> 10],
     [swcID |-> "113", title |-> "Multiple Calls", severity |-> "Medium",
      description |-> "d1", line |-> 10],
     [swcID |-> "113", title |-> "Integer Underflow", severity |-> "Low",
      description |-> "d1", line |-> 10],
     [swcID |-> "101", title |-> "Reentrancy", severity |-> "low",
      description |-> "d1", line |-> 10],
     [swcID |-> "", title |-> "Timestamp Reentrancy", severity |-> "HIGH",
      description |-> "d1", line |-> 10],
     [swcID |-> "999", title |-> "Delegatecall tx.origin",
      severity |-> "medium", description |-> "d1", line |-> 10],
     [swcID |-> "", title |-> "Overflow Delegatecall",
      severity |-> "Informational", description |-> "d1", line |-> 10],
     [swcID |-> "", title |-> "Randomness Access Control",
      severity |-> "INFORMATIONAL", description |-> "d1", line |-> 10],
     [swcID |-> "", title |-> "Bad Randomness", severity |-> "Unknown",
      description |-> "d1", line |-> 10],
     [swcID |-> "", title |-> "External Call", severity |-> "",
      description |-> "d1", line |-> 10]}

\* parseSlitherOutput(output) is entered: const vulnerabilities = []
ParseSlitherOutput(detectors) ==
    /\ adapter.pc # "loop"
    /\ adapter' = [pc |-> "loop", engine |-> "Slither", output |-> detectors,
                   vulnerabilities |-> <<>>]
    /\ UNCHANGED <<logVars, avars, hostVars>>

\* parseMythrilOutput(output, contractPath) is entered
ParseMythrilOutput(issues) ==
    /\ adapter.pc # "loop"
    /\ adapter' = [pc |-> "loop", engine |-> "Mythril", output |-> issues,
                   vulnerabilities |-> <<>>]
    /\ UNCHANGED <<logVars, avars, hostVars>>

\* one turn of for (const detector of ...) / for (const issue of ...):
\* the vulnerability is built from the next member and pushed
PushVulnerability ==
    /\ adapter.pc = "loop"
    /\ Len(adapter.vulnerabilities) < Len(adapter.output)
    /\ LET next == adapter.output[Len(adapter.vulnerabilities) + 1]
           vulnerability ==
               IF adapter.engine = "Slither"
               THEN parseSlitherOutput(<<next>>)[1]
               ELSE parseMythrilOutput(<<next>>)[1]
       IN  adapter' = [adapter EXCEPT
                          !.vulnerabilities = Append(@, vulnerability)]
    /\ UNCHANGED <<logVars, avars, hostVars>>

\* return vulnerabilities
ReturnVulnerabilities ==
    /\ adapter.pc = "loop"
    /\ Len(adapter.vulnerabilities) = Len(adapter.output)
    /\ adapter' = [adapter EXCEPT !.pc = "returned"]
    /\ UNCHANGED <<logVars, avars, hostVars>>

\* ---------------------------------------------------- analyzer: aggregator
ErrNoAnalyzers == "No analyzers available"

\* results.flatMap((r) => r.vulnerabilities)
RECURSIVE allVulnerabilities(_)
allVulnerabilities(rs) ==
    IF rs = <<>> THEN <<>>
    ELSE Head(rs).vulnerabilities \o allVulnerabilities(Tail(rs))

\* `${v.type}-${v.description}`
key(v) == v.type \o "-" \o v.description

\* Map.prototype.set on a map held as the sequence of its entries in
\* insertion order: a key already present keeps its place and takes the new
\* value
\* bug: the findings are collected in a list, not in a map
mapSet_append(m, k, v) == Append(m, <<k, v>>)

mapSet(m, k, v) ==
    IF \E n \in 1..Len(m) : m[n][1] = k
    THEN [n \in 1..Len(m) |-> IF m[n][1] = k THEN <<k, v>> ELSE m[n]]
    ELSE Append(m, <<k, v>>)

\* new Map(entries): the entries are set one after the other
RECURSIVE newMap(_)
newMap(entries) ==
    IF entries = <<>> THEN <<>>
    ELSE LET n == Len(entries) IN
         mapSet(newMap(SubSeq(entries, 1, n - 1)), entries[n][1], entries[n][2])

\* Array.from(new Map(all.map((v) => [key, v])).values())
uniqueVulnerabilities(all) ==
    LET m == newMap([n \in 1..Len(all) |-> <<key(all[n]), all[n]>>]) IN
    [n \in 1..Len(m) |-> m[n][2]]

\* bug: the time of the last engine stands for the whole scan
sumExecutionTime_last(rs) ==
    IF rs = <<>> THEN 0 ELSE rs[Len(rs)].executionTime

\* results.reduce((sum, r) => sum + r.executionTime, 0)
RECURSIVE sumExecutionTime(_)
sumExecutionTime(rs) ==
    IF rs = <<>> THEN 0
    ELSE Head(rs).executionTime + sumExecutionTime(Tail(rs))

\* bug: the result carries the name of the first engine that succeeded
combinedAnalysis_firstAnalyzer(rs) ==
    LET unique == uniqueVulnerabilities(allVulnerabilities(rs))
        summary == calculateSummary(unique)
    IN  [analyzer |-> rs[1].analyzer,
         vulnerabilities |-> unique,
         summary |-> summary,
         isSecure |-> summary.critical = 0 /\ summary.high = 0,
         executionTime |-> sumExecutionTime(rs)]

\* the AnalysisResult getCombinedAnalysis returns
combinedAnalysis(rs) ==
    LET unique == uniqueVulnerabilities(allVulnerabilities(rs))
        summary == calculateSummary(unique)
    IN  [analyzer |-> "Combined",
         vulnerabilities |-> unique,
         summary |-> summary,
         isSecure |-> summary.critical = 0 /\ summary.high = 0,
         executionTime |-> sumExecutionTime(rs)]

\* bug: the call turns to Mythril first and never to Slither
CallAnalyzer_mythrilFirst(method, cfg) ==
    /\ pc = "idle"
    /\ pc' = "mythril.isAvailable"
    /\ op' = method
    /\ config' = cfg
    /\ results' = <<>>
    /\ returned' = [status |-> "pending"]
    /\ UNCHANGED logVars

\* analyzeContract(contractPath, config) or getCombinedAnalysis(contractPath,
\* config) is called: results starts empty
CallAnalyzer(method, cfg) ==
    /\ pc = "idle"
    /\ pc' = "slither.isAvailable"
    /\ op' = method
    /\ config' = cfg
    /\ results' = <<>>
    /\ returned' = [status |-> "pending"]
    /\ UNCHANGED logVars

\* if (await this.slither.isAvailable())
SlitherIsAvailable(available) ==
    /\ pc = "slither.isAvailable"
    /\ pc' = IF available THEN "slither.analyze" ELSE "mythril.isAvailable"
    /\ UNCHANGED <<logVars, op, config, results, returned>>

\* bug: the call of slither.analyze is not wrapped in try / catch
SlitherAnalyze_uncaught(run) ==
    /\ pc = "slither.analyze"
    /\ IF Slither_succeeds(run)
       THEN /\ results' = Append(results, Slither_analyze(run, config))
            /\ pc' = "mythril.isAvailable"
            /\ returned' = returned
       ELSE /\ results' = results
            /\ pc' = "done"
            /\ returned' = [status |-> "rejected",
                            error |-> "Slither analysis failed"]
    /\ UNCHANGED <<logVars, op, config>>

\* bug: with a result of Slither at hand the call returns at once, without
\* turning to Mythril
SlitherAnalyze_returnsEarly(run) ==
    /\ pc = "slither.analyze"
    /\ IF Slither_succeeds(run)
       THEN /\ results' = Append(results, Slither_analyze(run, config))
            /\ pc' = "return"
       ELSE /\ results' = results
            /\ pc' = "mythril.isAvailable"
    /\ UNCHANGED <<logVars, op, config, returned>>

\* try { results.push(await this.slither.analyze(...)) } catch { log }
SlitherAnalyze(run) ==
    /\ pc = "slither.analyze"
    /\ results' = IF Slither_succeeds(run)
                  THEN Append(results, Slither_analyze(run, config))
                  ELSE results
    /\ pc' = "mythril.isAvailable"
    /\ UNCHANGED <<logVars, op, config, returned>>

\* if (await this.mythril.isAvailable())
MythrilIsAvailable(available) ==
    /\ pc = "mythril.isAvailable"
    /\ pc' = IF available THEN "mythril.analyze" ELSE "return"
    /\ UNCHANGED <<logVars, op, config, results, returned>>

\* try { results.push(await this.mythril.analyze(...)) } catch { log }
MythrilAnalyze(run) ==
    /\ pc = "mythril.analyze"
    /\ results' = IF Mythril_succeeds(run)
                  THEN Append(results, Mythril_analyze(run, config))
                  ELSE results
    /\ pc' = "return"
    /\ UNCHANGED <<logVars, op, config, returned>>

\* if (results.length === 0) throw ...; return results: the error also ends
\* getCombinedAnalysis, a returned list is merged by it
AnalyzeContractReturn ==
    /\ pc = "return"
    /\ IF Len(results) = 0
       THEN /\ returned' = [status |-> "rejected", error |-> ErrNoAnalyzers]
            /\ pc' = "done"
       ELSE IF op = "analyzeContract"
       THEN /\ returned' = [status |-> "fulfilled", value |-> results]
            /\ pc' = "done"
       ELSE /\ returned' = returned
            /\ pc' = "merge"
    /\ UNCHANGED <<logVars, op, config, results>>

GetCombinedAnalysisMerge ==
    /\ pc = "merge"
    /\ returned' = [status |-> "fulfilled", value |-> combinedAnalysis(results)]
    /\ pc' = "done"
    /\ UNCHANGED <<logVars, op, config, results>>

\* the caller has the settled promise; the locals of the call are gone
Settled ==
    /\ pc = "done"
    /\ pc' = "idle"
    /\ op' = "none"
    /\ config' = [excludeInformational |-> FALSE]
    /\ results' = <<>>
    /\ returned' = [status |-> "pending"]
    /\ UNCHANGED logVars

\* ------------------------------------------------ analyzer: availability
\* An engine is installed or removed, or its executable starts or stops
\* answering the version probe.  stable records, for the properties, that
\* this has not happened since the last call of checkAvailability began.
EnvChange(engine) ==
    /\ env' = [env EXCEPT ![engine] = ~@, !.stable = FALSE]
    /\ UNCHANGED <<logVars, avars, adapter, dbVars>>

\* checkAvailability() is called
CallCheckAvailability ==
    /\ pc = "idle"
    /\ pc' = "check.slither"
    /\ op' = "checkAvailability"
    /\ returned' = [status |-> "pending"]
    /\ env' = [env EXCEPT !.stable = TRUE]
    /\ UNCHANGED <<logVars, adapter, config, results, dbVars>>

\* bug: a failing probe of slither rejects the call
CheckSlither_throws ==
    /\ pc = "check.slither"
    /\ IF env.slither
       THEN /\ returned' = [status |-> "pending", slither |-> TRUE]
            /\ pc' = "check.mythril"
       ELSE /\ returned' = [status |-> "rejected",
                            error |-> "Command failed: slither --version"]
            /\ pc' = "done"
    /\ UNCHANGED <<logVars, adapter, op, config, results, hostVars>>

\* slither: await this.slither.isAvailable(): true when the probe exits
\* with 0, false when execAsync rejects
CheckSlither ==
    /\ pc = "check.slither"
    /\ returned' = [status |-> "pending", slither |-> env.slither]
    /\ pc' = "check.mythril"
    /\ UNCHANGED <<logVars, adapter, op, config, results, hostVars>>

\* mythril: await this.mythril.isAvailable(); the object is returned
CheckMythril ==
    /\ pc = "check.mythril"
    /\ returned' = [status |-> "fulfilled",
                    value |-> [slither |-> returned.slither,
                               mythril |-> env.mythril]]
    /\ pc' = "done"
    /\ UNCHANGED <<logVars, adapter, op, config, results, hostVars>>

\* ------------------------------------------------------------------- events
\* One record per event the contract declares, with the fields it declares.
VulnerabilityReported(id, c, t, s, reporter) ==
    [event |-> "VulnerabilityReported", vulnerabilityId |-> id,
     contractAddress |-> c, vulnType |-> t, severity |-> s,
     reporter |-> reporter]

VulnerabilityVerified(id, verifier) ==
    [event |-> "VulnerabilityVerified", vulnerabilityId |-> id,
     verifier |-> verifier]

VulnerabilityResolved(id, resolver) ==
    [event |-> "VulnerabilityResolved", vulnerabilityId |-> id,
     resolver |-> resolver]

AuditReportSubmitted(c, auditor, isSecure) ==
    [event |-> "AuditReportSubmitted", contractAddress |-> c,
     auditor |-> auditor, isSecure |-> isSecure]

ContractBlacklisted(c, reason) ==
    [event |-> "ContractBlacklisted", contractAddress |-> c, reason |-> reason]

ContractWhitelisted(c) ==
    [event |-> "ContractWhitelisted", contractAddress |-> c]

ReasonCriticalReport == "Critical vulnerability detected"
ReasonCriticalAudit == "Critical vulnerabilities found in audit"
\* _reason of blacklistContract
ReasonInputs == {"manual review"}

\* What a successful call emits, in emission order.
\* bug: the auto-blacklist sets the flag without emitting ContractBlacklisted
reportVulnerabilityEvents_flagOnly(sender, c, t, s) ==
    <<VulnerabilityReported(vulnId, c, t, s, sender)>>

reportVulnerabilityEvents(sender, c, t, s) ==
    <<VulnerabilityReported(vulnId, c, t, s, sender)>>
        \o (IF reportBlacklists(s)
            THEN <<ContractBlacklisted(c, ReasonCriticalReport)>>
            ELSE <<>>)

verifyVulnerabilityEvents(sender, id) == <<VulnerabilityVerified(id, sender)>>

resolveVulnerabilityEvents(sender, id) == <<VulnerabilityResolved(id, sender)>>

submitAuditReportEvents(sender, c, critical, high) ==
    <<AuditReportSubmitted(c, sender, isSecureOf(critical, high))>>
        \o (IF auditBlacklists(critical)
            THEN <<ContractBlacklisted(c, ReasonCriticalAudit)>>
            ELSE <<>>)

blacklistContractEvents(c, reason) == <<ContractBlacklisted(c, reason)>>

whitelistContractEvents(c) == <<ContractWhitelisted(c)>>

\* The log after a call: a reverted call leaves no event behind.
emit(outcome, evs) == IF outcome = OK THEN events \o evs ELSE events

\* ------------------------------------------------------------------ indexer
\* The subgraph mapping (src/mapping.ts): one handler per event, each
\* loading and saving entities of the store by their id.
\* block.timestamp of the blocks the indexed transactions are mined in
BlockTimestamps == {100, 101}

\* Address.toHexString(), the addresses being one digit long
toHexString(a) == "0x0" \o ToString(a)

\* the store before the first event: no entity of any type
EmptyStore ==
    [vulnerabilities |-> [id \in {} |-> id],
     auditReports |-> [id \in {} |-> id],
     contracts |-> [id \in {} |-> id]]

\* entity.save(): the entity replaces the one of the same id, if any; a
\* loaded entity is saved with the fields assigned before (fields @@ entity)
save(table, id, entity) == (id :> entity) @@ table

\* let contract = Contract.load(id); if (contract == null) { new Contract,
\* isBlacklisted = false, save }
loadOrCreateContract(contracts, c) ==
    IF toHexString(c) \in DOMAIN contracts
    THEN contracts
    ELSE save(contracts, toHexString(c),
              [address |-> c, isBlacklisted |-> FALSE])

handleVulnerabilityReported(store, event) ==
    LET id == ToString(event.params.vulnerabilityId)
        vulnerability ==
            [vulnerabilityId |-> event.params.vulnerabilityId,
             contractAddress |-> event.params.contractAddress,
             vulnType |-> event.params.vulnType,
             severity |-> event.params.severity,
             reporter |-> event.params.reporter,
             timestamp |-> event.block.timestamp,
             verified |-> FALSE,
             resolved |-> FALSE,
             contract |-> toHexString(event.params.contractAddress)]
    IN  [store EXCEPT
            !.contracts = loadOrCreateContract(@, event.params.contractAddress),
            !.vulnerabilities = save(@, id, vulnerability)]

handleVulnerabilityVerified(store, event) ==
    LET id == ToString(event.params.vulnerabilityId) IN
    IF id \in DOMAIN store.vulnerabilities
    THEN [store EXCEPT
             !.vulnerabilities =
                 save(@, id, [verified |-> TRUE,
                              verifier |-> event.params.verifier] @@ @[id])]
    ELSE store

handleVulnerabilityResolved(store, event) ==
    LET id == ToString(event.params.vulnerabilityId) IN
    IF id \in DOMAIN store.vulnerabilities
    THEN [store EXCEPT
             !.vulnerabilities =
                 save(@, id, [resolved |-> TRUE,
                              resolver |-> event.params.resolver] @@ @[id])]
    ELSE store

\* contractAddress.toHexString() + "-" + block.timestamp.toString()
reportId(c, timestamp) == toHexString(c) \o "-" \o ToString(timestamp)

\* the counts are not in the event: the handler sets them to 0
handleAuditReportSubmitted(store, event) ==
    LET auditReport ==
            [contractAddress |-> event.params.contractAddress,
             auditor |-> event.params.auditor,
             isSecure |-> event.params.isSecure,
             timestamp |-> event.block.timestamp,
             totalVulnerabilities |-> 0,
             criticalCount |-> 0, highCount |-> 0, mediumCount |-> 0,
             lowCount |-> 0,
             contract |-> toHexString(event.params.contractAddress)]
    IN  [store EXCEPT
            !.contracts = loadOrCreateContract(@, event.params.contractAddress),
            !.auditReports =
                save(@, reportId(event.params.contractAddress,
                                 event.block.timestamp), auditReport)]

\* Contract.load(id), or a new Contract with its address alone
loadOrNewContract(contracts, c) ==
    IF toHexString(c) \in DOMAIN contracts
    THEN contracts[toHexString(c)]
    ELSE [address |-> c]

\* bug: the fields of the loaded entity win over the assigned ones
handleContractBlacklisted_loadedWins(store, event) ==
    LET c == event.params.contractAddress IN
    [store EXCEPT
        !.contracts =
            save(@, toHexString(c),
                 loadOrNewContract(@, c)
                     @@ [isBlacklisted |-> TRUE,
                         blacklistReason |-> event.params.reason,
                         blacklistedAt |-> event.block.timestamp])]

handleContractBlacklisted(store, event) ==
    LET c == event.params.contractAddress IN
    [store EXCEPT
        !.contracts =
            save(@, toHexString(c),
                 [isBlacklisted |-> TRUE,
                  blacklistReason |-> event.params.reason,
                  blacklistedAt |-> event.block.timestamp]
                     @@ loadOrNewContract(@, c))]

handleContractWhitelisted(store, event) ==
    LET c == event.params.contractAddress IN
    [store EXCEPT
        !.contracts =
            save(@, toHexString(c),
                 [isBlacklisted |-> FALSE,
                  whitelistedAt |-> event.block.timestamp]
                     @@ loadOrNewContract(@, c))]

\* the handler the event is mapped to
handle(store, event) ==
    CASE event.params.event = "VulnerabilityReported" ->
             handleVulnerabilityReported(store, event)
      [] event.params.event = "VulnerabilityVerified" ->
             handleVulnerabilityVerified(store, event)
      [] event.params.event = "VulnerabilityResolved" ->
             handleVulnerabilityResolved(store, event)
      [] event.params.event = "AuditReportSubmitted" ->
             handleAuditReportSubmitted(store, event)
      [] event.params.event = "ContractBlacklisted" ->
             handleContractBlacklisted(store, event)
      [] event.params.event = "ContractWhitelisted" ->
             handleContractWhitelisted(store, event)

\* the store after the events have been handled one by one, in order
RECURSIVE replay(_)
replay(evs) ==
    IF evs = <<>> THEN EmptyStore
    ELSE handle(replay(SubSeq(evs, 1, Len(evs) - 1)), evs[Len(evs)])

\* ------------------------------------------------------------ specification
\* number of records and audit reports in storage
storedEntries ==
    vulnerabilityCount
    + Cardinality({x \in Addresses \X (1..MaxEntries) :
                      x[2] <= Len(auditReports[x[1]])})

\* A call seen by its effect on the storage.
Storage(Call) == Call /\ UNCHANGED <<events, avars, adapter, hostVars>>

Next ==
    \/ \E p \in Principals, i \in ReportInputs, t \in TypeInputs,
          now \in Timestamps :
          /\ reportVulnerabilityOutcome(p, i[1], i[3]) = OK
                => storedEntries < MaxEntries
          /\ Storage(ReportVulnerability(p, i[1], t, i[2], i[3], now))
    \/ \E p \in Principals, id \in IdInputs :
          Storage(VerifyVulnerability(p, id))
    \/ \E p \in Principals, id \in IdInputs :
          Storage(ResolveVulnerability(p, id))
    \/ \E p \in Principals, i \in SubmitInputs, now \in Timestamps :
          /\ submitAuditReportOutcome(p, i[1], i[2]) = OK
                => storedEntries < MaxEntries
          /\ Storage(SubmitAuditReport(p, i[1], i[2][1], i[2][2], i[2][3],
                                       i[2][4], now))
    \/ \E p \in Principals, c \in Contracts : Storage(BlacklistContract(p, c))
    \/ \E p \in Principals, c \in Contracts : Storage(WhitelistContract(p, c))
    \/ \E p \in Principals : Storage(Pause(p))
    \/ \E p \in Principals : Storage(Unpause(p))
    \/ \E p \in Principals, r \in RoleInputs, a \in RoleAccounts :
          Storage(GrantRole(p, r, a))
    \/ \E p \in Principals, r \in RoleInputs, a \in RoleAccounts :
          Storage(RevokeRole(p, r, a))

Spec == Init /\ [][Next]_vars

\* Role administration on its own: grantRole and revokeRole for every role
\* and every account, the caller's own included, next to the calls that the
\* roles guard and that store nothing new.
NextRoles ==
    \/ \E p \in Principals, r \in Roles, a \in Principals :
          Storage(GrantRole(p, r, a))
    \/ \E p \in Principals, r \in Roles, a \in Principals :
          Storage(RevokeRole(p, r, a))
    \/ \E p \in Principals, c \in Contracts : Storage(BlacklistContract(p, c))
    \/ \E p \in Principals, c \in Contracts : Storage(WhitelistContract(p, c))
    \/ \E p \in Principals : Storage(Pause(p))
    \/ \E p \in Principals : Storage(Unpause(p))

SpecRoles == Init /\ [][NextRoles]_vars

\* The same calls with the log: a call is made only while the log has room
\* for what it emits.
Logged(Call, outcome, evs) ==
    /\ outcome = OK => Len(events) + Len(evs) <= MaxEvents
    /\ Call
    /\ events' = emit(outcome, evs)
    /\ UNCHANGED <<avars, adapter, hostVars>>

NextLog ==
    \/ \E p \in Principals, i \in ReportInputs, t \in TypeInputs,
          now \in Timestamps :
          /\ reportVulnerabilityOutcome(p, i[1], i[3]) = OK
                => storedEntries < MaxEntries
          /\ Logged(ReportVulnerability(p, i[1], t, i[2], i[3], now),
                    reportVulnerabilityOutcome(p, i[1], i[3]),
                    reportVulnerabilityEvents(p, i[1], t, i[2]))
    \/ \E p \in Principals, id \in IdInputs :
          Logged(VerifyVulnerability(p, id), verifyVulnerabilityOutcome(p, id),
                 verifyVulnerabilityEvents(p, id))
    \/ \E p \in Principals, id \in IdInputs :
          Logged(ResolveVulnerability(p, id),
                 resolveVulnerabilityOutcome(p, id),
                 resolveVulnerabilityEvents(p, id))
    \/ \E p \in Principals, i \in SubmitInputs, now \in Timestamps :
          /\ submitAuditReportOutcome(p, i[1], i[2]) = OK
                => storedEntries < MaxEntries
          /\ Logged(SubmitAuditReport(p, i[1], i[2][1], i[2][2], i[2][3],
                                      i[2][4], now),
                    submitAuditReportOutcome(p, i[1], i[2]),
                    submitAuditReportEvents(p, i[1], i[2][1], i[2][2]))
    \/ \E p \in Principals, c \in Contracts, reason \in ReasonInputs :
          Logged(BlacklistContract(p, c), blacklistContractOutcome(p),
                 blacklistContractEvents(c, reason))
    \/ \E p \in Principals, c \in Contracts :
          Logged(WhitelistContract(p, c), whitelistContractOutcome(p),
                 whitelistContractEvents(c))
    \/ \E p \in Principals : Storage(Pause(p))
    \/ \E p \in Principals : Storage(Unpause(p))
    \/ \E p \in Principals, r \in RoleInputs, a \in RoleAccounts :
          Storage(GrantRole(p, r, a))
    \/ \E p \in Principals, r \in RoleInputs, a \in RoleAccounts :
          Storage(RevokeRole(p, r, a))

SpecLog == Init /\ [][NextLog]_logVars

\* The calls that emit events, each mined in a block whose timestamp is not
\* before that of the block of the last event; the log holds the events as
\* a handler is called with them, event.params and event.block.
Mined(Call, outcome, evs, now) ==
    /\ outcome = OK => Len(events) + Len(evs) <= MaxEvents
    /\ events # <<>> => events[Len(events)].block.timestamp <= now
    /\ Call
    /\ events' = IF outcome = OK
                 THEN events \o [k \in 1..Len(evs) |->
                                    [params |-> evs[k],
                                     block |-> [timestamp |-> now]]]
                 ELSE events
    /\ UNCHANGED <<avars, adapter, hostVars>>

NextIndex ==
    \/ \E p \in Principals, i \in ReportInputs, t \in TypeInputs,
          now \in BlockTimestamps :
          /\ reportVulnerabilityOutcome(p, i[1], i[3]) = OK
                => storedEntries < MaxEntries
          /\ Mined(ReportVulnerability(p, i[1], t, i[2], i[3], now),
                   reportVulnerabilityOutcome(p, i[1], i[3]),
                   reportVulnerabilityEvents(p, i[1], t, i[2]), now)
    \/ \E p \in Principals, id \in IdInputs, now \in BlockTimestamps :
          Mined(VerifyVulnerability(p, id), verifyVulnerabilityOutcome(p, id),
                verifyVulnerabilityEvents(p, id), now)
    \/ \E p \in Principals, id \in IdInputs, now \in BlockTimestamps :
          Mined(ResolveVulnerability(p, id),
                resolveVulnerabilityOutcome(p, id),
                resolveVulnerabilityEvents(p, id), now)
    \/ \E p \in Principals, i \in SubmitInputs, now \in BlockTimestamps :
          /\ submitAuditReportOutcome(p, i[1], i[2]) = OK
                => storedEntries < MaxEntries
          /\ Mined(SubmitAuditReport(p, i[1], i[2][1], i[2][2], i[2][3],
                                     i[2][4], now),
                   submitAuditReportOutcome(p, i[1], i[2]),
                   submitAuditReportEvents(p, i[1], i[2][1], i[2][2]), now)
    \/ \E p \in Principals, c \in Contracts, reason \in ReasonInputs,
          now \in BlockTimestamps :
          Mined(BlacklistContract(p, c), blacklistContractOutcome(p),
                blacklistContractEvents(c, reason), now)
    \/ \E p \in Principals, c \in Contracts, now \in BlockTimestamps :
          Mined(WhitelistContract(p, c), whitelistContractOutcome(p),
                whitelistContractEvents(c), now)

SpecIndex == Init /\ [][NextIndex]_logVars

\* The analyzer: one call at a time, from the call to its settlement.
Aggregator(Step) == Step /\ UNCHANGED <<adapter, hostVars>>

NextAnalyzer ==
    \/ \E method \in {"analyzeContract", "getCombinedAnalysis"},
          cfg \in ConfigInputs : Aggregator(CallAnalyzer(method, cfg))
    \/ \E available \in BOOLEAN : Aggregator(SlitherIsAvailable(available))
    \/ \E run \in SlitherRuns : Aggregator(SlitherAnalyze(run))
    \/ \E available \in BOOLEAN : Aggregator(MythrilIsAvailable(available))
    \/ \E run \in MythrilRuns : Aggregator(MythrilAnalyze(run))
    \/ Aggregator(AnalyzeContractReturn)
    \/ Aggregator(GetCombinedAnalysisMerge)
    \/ Aggregator(Settled)

SpecAnalyzer == Init /\ [][NextAnalyzer]_avars

\* The analyzer on a host: the probes of analyzeContract see the engines
\* the host has, as those of checkAvailability do; the engines' runs are
\* those without a finding.
NextAvailability ==
    \/ \E engine \in {"slither", "mythril"} : EnvChange(engine)
    \/ CallCheckAvailability
    \/ CheckSlither
    \/ CheckMythril
    \/ \E method \in {"analyzeContract", "getCombinedAnalysis"},
          cfg \in ConfigInputs : Aggregator(CallAnalyzer(method, cfg))
    \/ Aggregator(SlitherIsAvailable(env.slither))
    \/ \E run \in {x \in SlitherRuns : x.output = <<>>} :
          Aggregator(SlitherAnalyze(run))
    \/ Aggregator(MythrilIsAvailable(env.mythril))
    \/ \E run \in {x \in MythrilRuns : x.output = <<>>} :
          Aggregator(MythrilAnalyze(run))
    \/ Aggregator(AnalyzeContractReturn)
    \/ Aggregator(GetCombinedAnalysisMerge)
    \/ Aggregator(Settled)

SpecAvailability == Init /\ [][NextAvailability]_<<avars, hostVars>>

\* The adapters' parsers on their own: one output after the other is parsed
\* to its end.
NextAdapter ==
    \/ \E detectors \in Lists(AdapterDetectors) : ParseSlitherOutput(detectors)
    \/ \E issues \in Lists(AdapterIssues) : ParseMythrilOutput(issues)
    \/ PushVulnerability
    \/ ReturnVulnerabilities

SpecAdapter == Init /\ [][NextAdapter]_adapter

\* What the code makes sure to happen.  The child process of an analysis
\* is started with a timeout (config.timeout, or 120000 ms for slither and
\* 300000 ms for myth), so the await of analyze settles; the steps without
\* an await run to their end.  execAsync("slither --version") and
\* execAsync("myth --version") of isAvailable are started without a timeout:
\* nothing makes the await of a probe settle, and no fairness is asked of
\* SlitherIsAvailable and MythrilIsAvailable.  Nothing makes a caller call.
SpecAnalyzerLive ==
    /\ SpecAnalyzer
    /\ WF_avars(\E run \in SlitherRuns : Aggregator(SlitherAnalyze(run)))
    /\ WF_avars(\E run \in MythrilRuns : Aggregator(MythrilAnalyze(run)))
    /\ WF_avars(Aggregator(AnalyzeContractReturn))
    /\ WF_avars(Aggregator(GetCombinedAnalysisMerge))
    /\ WF_avars(Aggregator(Settled))

\* ------------------------------------------------- backend: scanContract
\* One action per stretch of scanContract between two awaits: the handlers
\* of concurrent requests interleave at their awaits.  A write of a document
\* takes effect when it is awaited.  The database rejects one thing only,
\* the insertion of a second Contract with an address it holds (unique).
AuditStatus ==
    [PENDING |-> "PENDING", IN_PROGRESS |-> "IN_PROGRESS",
     COMPLETED |-> "COMPLETED", FAILED |-> "FAILED"]
ErrDuplicateKey == "E11000 duplicate key error"

\* the request r with fields replaced
with(r, fields) == [requests EXCEPT ![r] = fields @@ @]

json(success, error) ==
    [status |-> IF success THEN 200 ELSE 500, success |-> success,
     error |-> error]

\* catch (analysisError): the audit is saved FAILED and the error rethrown
\* to the outer catch, which answers 500
failAudit(r, error) ==
    /\ audits' = [audits EXCEPT ![r].status = AuditStatus.FAILED]
    /\ requests' = with(r, [pc |-> "done", response |-> json(FALSE, error)])

\* validation, then the Audit is created IN_PROGRESS and saved
ScanContract(r, body) ==
    /\ requests[r].pc = "idle"
    /\ IF ~body.valid
       THEN /\ requests' =
                   with(r, [pc |-> "done",
                            response |-> [status |-> 400, success |-> FALSE,
                                          error |-> "validation"]])
            /\ UNCHANGED <<audits, contractCollection>>
       ELSE /\ audits' =
                   (r :> [status |-> AuditStatus.IN_PROGRESS,
                          contractAddress |-> toLowerCase(body.contractAddress),
                          totalVulnerabilities |-> 0]) @@ audits
            /\ requests' =
                   with(r, [pc |-> "analysis",
                            contractAddress |-> body.contractAddress])
            /\ UNCHANGED contractCollection
    /\ UNCHANGED <<logVars, avars, adapter, env>>

\* await getCombinedAnalysis settles: with a result, the audit is saved
\* COMPLETED with its summary; without a contractAddress the success
\* response follows
AnalysisSettles(r, outcome) ==
    /\ requests[r].pc = "analysis"
    /\ IF outcome.status = "rejected"
       THEN failAudit(r, ErrNoAnalyzers)
       ELSE /\ audits' =
                   [audits EXCEPT
                       ![r].status = AuditStatus.COMPLETED,
                       ![r].totalVulnerabilities = Len(outcome.vulnerabilities)]
            /\ requests' =
                   IF requests[r].contractAddress # ""
                   THEN with(r, [pc |-> "findOne",
                                 vulnerabilities |-> outcome.vulnerabilities])
                   ELSE with(r, [pc |-> "done",
                                 vulnerabilities |-> outcome.vulnerabilities,
                                 response |-> json(TRUE, "")])
    /\ UNCHANGED <<contractCollection, logVars, avars, adapter, env>>

\* the safety status after a scan with these findings
safetyStatusAfter(status, vs) ==
    LET summary == calculateSummary(vs) IN
    IF summary.critical > 0 \/ summary.high > 0 THEN "UNSAFE"
    ELSE IF Len(vs) = 0 THEN "SAFE"
    ELSE status

\* await Contract.findOne({ address }) settles: the document found, or a
\* new one, gets its fields assigned in memory
FindContract(r) ==
    /\ requests[r].pc = "findOne"
    /\ LET address == toLowerCase(requests[r].contractAddress)
           isNew == address \notin DOMAIN contractCollection
           contract ==
               IF isNew
               THEN [totalAudits |-> 0, totalVulnerabilities |-> 0,
                     safetyStatus |-> "UNKNOWN"]
               ELSE contractCollection[address]
           vs == requests[r].vulnerabilities
       IN  requests' =
               with(r, [pc |-> "save",
                        contract |->
                            [isNew |-> isNew,
                             totalAudits |-> contract.totalAudits + 1,
                             totalVulnerabilities |-> Len(vs),
                             safetyStatus |->
                                 safetyStatusAfter(contract.safetyStatus, vs)]])
    /\ UNCHANGED <<audits, contractCollection, logVars, avars, adapter, env>>

\* await contract.save() settles: a new document is inserted unless the
\* address is taken, a found one has its assigned fields set; then the
\* success response
SaveContract(r) ==
    /\ requests[r].pc = "save"
    /\ LET address == toLowerCase(requests[r].contractAddress)
           contract == requests[r].contract
       IN  IF contract.isNew /\ address \in DOMAIN contractCollection
           THEN /\ failAudit(r, ErrDuplicateKey)
                /\ UNCHANGED contractCollection
           ELSE /\ contractCollection' =
                       (address :>
                           [totalAudits |-> contract.totalAudits,
                            totalVulnerabilities |-> contract.totalVulnerabilities,
                            safetyStatus |-> contract.safetyStatus])
                           @@ contractCollection
                /\ requests' =
                       with(r, [pc |-> "done", response |-> json(TRUE, "")])
                /\ UNCHANGED audits
    /\ UNCHANGED <<logVars, avars, adapter, env>>

NextBackend ==
    \/ \E r \in Requests, body \in ScanBodies : ScanContract(r, body)
    \/ \E r \in Requests, outcome \in AnalysisOutcomes :
          AnalysisSettles(r, outcome)
    \/ \E r \in Requests : FindContract(r)
    \/ \E r \in Requests : SaveContract(r)

\* Every await of scanContract settles: the database answers, and the
\* analysis is taken to settle (its own progress is SpecAnalyzerLive's).
\* Nothing makes a request arrive.
SpecBackend ==
    /\ Init
    /\ [][NextBackend]_dbVars
    /\ \A r \in Requests :
           /\ WF_dbVars(\E outcome \in AnalysisOutcomes : AnalysisSettles(r, outcome))
           /\ WF_dbVars(FindContract(r))
           /\ WF_dbVars(SaveContract(r))

\* ================================================================== claims
\* The action formulas below begin with UNCHANGED vars: a step that changes
\* nothing (a reverted call) satisfies them without further evaluation.
Ids == 0..(vulnerabilityCount - 1)

latestAuditReport(c) == auditReports[c][Len(auditReports[c])]

\* C1: in every reachable state and for every address c, isContractSafe(c) is
\* true exactly when c is not blacklisted, c has at least one audit report and
\* the last report of c has isSecure = TRUE; a contract without any audit
\* report is never safe.
C1_IsContractSafeExact ==
    \A c \in Addresses :
        /\ isContractSafe(c) <=>
              (/\ ~blacklistedContracts[c]
               /\ Len(auditReports[c]) > 0
               /\ latestAuditReport(c).isSecure)
        /\ auditReports[c] = <<>> => ~isContractSafe(c)

\* a safe contract beside a contract that has a reported vulnerability, was
\* whitelisted or never blacklisted, has no audit report and is not safe
C1_Witness ==
    \E c, e \in Contracts :
        /\ isContractSafe(c)
        /\ auditReports[e] = <<>>
        /\ ~blacklistedContracts[e]
        /\ \E id \in Ids : vuln(id).contractAddress = e
        /\ ~isContractSafe(e)

\* C2: every record follows Reported -> Verified -> Resolved: resolved implies
\* verified in every reachable state, and no step turns a verified flag or a
\* resolved flag from TRUE to FALSE.
C2_Lifecycle ==
    /\ [](\A id \in Ids : vuln(id).resolved => vuln(id).verified)
    /\ [][UNCHANGED vars \/
          \A id \in Ids :
            /\ id < vulnerabilityCount'
            /\ vuln(id).verified => vuln(id).verified'
            /\ vuln(id).resolved => vuln(id).resolved']_vars

\* a record that went through the whole lifecycle beside one still Reported
C2_Witness ==
    \E i, j \in Ids :
        /\ vuln(i).verified /\ vuln(i).resolved
        /\ ~vuln(j).verified /\ ~vuln(j).resolved

\* C3: a successful report of severity Critical against contract c leaves, in
\* the state right after that one step, blacklistedContracts[c] TRUE and
\* isContractSafe(c) FALSE, also when the latest audit report of c is secure.
C3_CriticalReportBlacklists ==
    [][UNCHANGED vars \/
       \A p \in Principals, i \in ReportInputs, t \in TypeInputs,
          now \in Timestamps :
          (/\ i[2] = CRITICAL
           /\ reportVulnerabilityOutcome(p, i[1], i[3]) = OK
           /\ ReportVulnerability(p, i[1], t, i[2], i[3], now))
          => (blacklistedContracts'[i[1]] /\ ~isContractSafe(i[1])')]_vars

\* a contract whose latest audit report is secure, with a Critical record
\* against it, blacklisted
C3_Witness ==
    \E c \in Contracts :
        /\ Len(auditReports[c]) > 0
        /\ latestAuditReport(c).isSecure
        /\ \A k \in 1..Len(auditReports[c]) : auditReports[c][k].criticalCount = 0
        /\ \E id \in Ids :
              vuln(id).contractAddress = c /\ vuln(id).severity = CRITICAL
        /\ blacklistedContracts[c]
        /\ ~isContractSafe(c)

\* C4: a successful submitAuditReport for c with critical > 0 leaves
\* blacklistedContracts[c] TRUE, and a blacklisted contract stays blacklisted
\* through every step (a later secure audit report included) except a
\* whitelistContract(c) made by a holder of the Admin role.
C4_AuditBlacklistSticks ==
    /\ [][UNCHANGED vars \/
          \A p \in Principals, i \in SubmitInputs, now \in Timestamps :
            (/\ i[2][1] > 0
             /\ submitAuditReportOutcome(p, i[1], i[2]) = OK
             /\ SubmitAuditReport(p, i[1], i[2][1], i[2][2], i[2][3], i[2][4],
                                  now))
            => blacklistedContracts'[i[1]]]_vars
    /\ [][UNCHANGED vars \/
          \A c \in Addresses :
            (blacklistedContracts[c] /\ ~blacklistedContracts'[c])
            => \E p \in Principals :
                  /\ hasRole(DEFAULT_ADMIN_ROLE, p)
                  /\ WhitelistContract(p, c)]_vars

\* a contract blacklisted by an audit with critical > 0 and still blacklisted
\* after a later audit report with critical = 0 and high = 0
C4_Witness ==
    \E c \in Contracts :
        /\ Len(auditReports[c]) = 2
        /\ auditReports[c][1].criticalCount > 0
        /\ auditReports[c][2].criticalCount = 0
        /\ auditReports[c][2].isSecure
        /\ vulnerabilityCount = 0
        /\ blacklistedContracts[c]

\* C5: a successful whitelistContract(c) on a blacklisted contract c leaves
\* blacklistedContracts[c] FALSE and isContractSafe(c) equal to the isSecure
\* flag of c's latest audit report (FALSE without a report), and changes
\* neither an audit history nor a vulnerability record.
C5_WhitelistRestores ==
    [][UNCHANGED vars \/
       \A p \in Principals, c \in Contracts :
          (/\ blacklistedContracts[c]
           /\ whitelistContractOutcome(p) = OK
           /\ WhitelistContract(p, c))
          => /\ ~blacklistedContracts'[c]
             /\ isContractSafe(c)' =
                   (IF auditReports[c] = <<>> THEN FALSE
                    ELSE latestAuditReport(c).isSecure)
             /\ auditReports' = auditReports
             /\ vulnerabilities' = vulnerabilities
             /\ vulnerabilityCount' = vulnerabilityCount]_vars

\* a contract that an audit with critical > 0 blacklisted and that is no
\* longer blacklisted: its latest report alone decides, here against it
C5_Witness ==
    \E c \in Contracts :
        /\ Len(auditReports[c]) > 0
        /\ latestAuditReport(c).criticalCount > 0
        /\ ~blacklistedContracts[c]
        /\ ~isContractSafe(c)

\* C6: every stored audit report has totalVulnerabilities equal to the sum of
\* its four counts and isSecure exactly when critical = 0 and high = 0; a
\* successful submitAuditReport appends a report with the counts as given and
\* the caller as auditor, and when critical = 0, high = 0 and the contract is
\* not blacklisted, isContractSafe of the contract is TRUE right after.
C6_StoredReport ==
    /\ [](\A c \in Addresses : \A k \in 1..Len(auditReports[c]) :
            LET r == auditReports[c][k] IN
            /\ r.contractAddress = c
            /\ r.totalVulnerabilities =
                  r.criticalCount + r.highCount + r.mediumCount + r.lowCount
            /\ r.isSecure <=> (r.criticalCount = 0 /\ r.highCount = 0))
    /\ [][UNCHANGED vars \/
          \A p \in Principals, i \in SubmitInputs, now \in Timestamps :
            (/\ submitAuditReportOutcome(p, i[1], i[2]) = OK
             /\ SubmitAuditReport(p, i[1], i[2][1], i[2][2], i[2][3], i[2][4],
                                  now))
            => LET r == latestAuditReport(i[1])' IN
               /\ Len(auditReports'[i[1]]) = Len(auditReports[i[1]]) + 1
               /\ r.criticalCount = i[2][1] /\ r.highCount = i[2][2]
               /\ r.mediumCount = i[2][3] /\ r.lowCount = i[2][4]
               /\ r.auditor = p
               /\ (i[2][1] = 0 /\ i[2][2] = 0 /\ ~blacklistedContracts[i[1]])
                     => isContractSafe(i[1])']_vars

\* the report of the scenario (0, 0, 1, 2) stored as secure and the contract
\* safe, beside a report with only a high finding stored as not secure
C6_Witness ==
    \E c, e \in Contracts :
        /\ Len(auditReports[c]) = 1
        /\ latestAuditReport(c).mediumCount = 1
        /\ latestAuditReport(c).lowCount = 2
        /\ latestAuditReport(c).totalVulnerabilities = 3
        /\ latestAuditReport(c).isSecure
        /\ isContractSafe(c)
        /\ Len(auditReports[e]) = 1
        /\ latestAuditReport(e).highCount = 1
        /\ ~latestAuditReport(e).isSecure

\* C7: a call made by a principal that does not hold the required role at
\* that moment (Reporter for report; Auditor for verify, resolve,
\* submitAuditReport and blacklist; Admin for whitelist, pause and unpause) is
\* rejected as unauthorized and changes nothing; hence every call that changed
\* the state was made by a holder of the required role.
C7_RoleGuards ==
    /\ [](\A p \in Principals :
            /\ ~hasRole(REPORTER_ROLE, p) =>
                  \A i \in ReportInputs :
                      reportVulnerabilityOutcome(p, i[1], i[3]) = ErrUnauthorized
            /\ ~hasRole(AUDITOR_ROLE, p) =>
                  /\ \A id \in IdInputs :
                        /\ verifyVulnerabilityOutcome(p, id) = ErrUnauthorized
                        /\ resolveVulnerabilityOutcome(p, id) = ErrUnauthorized
                  /\ \A i \in SubmitInputs :
                        submitAuditReportOutcome(p, i[1], i[2]) = ErrUnauthorized
                  /\ blacklistContractOutcome(p) = ErrUnauthorized
            /\ ~hasRole(DEFAULT_ADMIN_ROLE, p) =>
                  /\ whitelistContractOutcome(p) = ErrUnauthorized
                  /\ pauseOutcome(p) = ErrUnauthorized
                  /\ unpauseOutcome(p) = ErrUnauthorized)
    /\ [][UNCHANGED vars \/
          \A p \in Principals :
            /\ ~hasRole(REPORTER_ROLE, p) =>
                  \A i \in ReportInputs, t \in TypeInputs, now \in Timestamps :
                      ReportVulnerability(p, i[1], t, i[2], i[3], now)
                          => UNCHANGED vars
            /\ ~hasRole(AUDITOR_ROLE, p) =>
                  /\ \A id \in IdInputs :
                        (VerifyVulnerability(p, id) \/ ResolveVulnerability(p, id))
                            => UNCHANGED vars
                  /\ \A i \in SubmitInputs, now \in Timestamps :
                        SubmitAuditReport(p, i[1], i[2][1], i[2][2], i[2][3],
                                          i[2][4], now) => UNCHANGED vars
                  /\ \A c \in Contracts : BlacklistContract(p, c) => UNCHANGED vars
            /\ ~hasRole(DEFAULT_ADMIN_ROLE, p) =>
                  /\ \A c \in Contracts : WhitelistContract(p, c) => UNCHANGED vars
                  /\ (Pause(p) \/ Unpause(p)) => UNCHANGED vars]_vars

\* a principal that holds Reporter but neither Auditor nor Admin: its report
\* is stored, its verify of that record and its whitelist are unauthorized
C7_Witness ==
    \E p \in Principals, id \in Ids :
        /\ hasRole(REPORTER_ROLE, p)
        /\ ~hasRole(AUDITOR_ROLE, p)
        /\ ~hasRole(DEFAULT_ADMIN_ROLE, p)
        /\ vuln(id).reporter = p
        /\ ~vuln(id).verified
        /\ verifyVulnerabilityOutcome(p, id) = ErrUnauthorized
        /\ whitelistContractOutcome(p) = ErrUnauthorized

\* C8: while paused, every report and every submitAuditReport is rejected (a
\* role holder gets EnforcedPause) and changes nothing; verify and resolve
\* succeed under the same conditions whether paused or not, and have their
\* effect while paused; when not paused, report and submitAuditReport with
\* valid arguments by a role holder succeed.
C8_Pause ==
    /\ [](\A p \in Principals :
            /\ \A i \in ReportInputs :
                  /\ paused => reportVulnerabilityOutcome(p, i[1], i[3]) # OK
                  /\ (paused /\ hasRole(REPORTER_ROLE, p)) =>
                        reportVulnerabilityOutcome(p, i[1], i[3]) = ErrEnforcedPause
                  /\ (~paused /\ hasRole(REPORTER_ROLE, p)
                        /\ i[1] # ZeroAddress /\ i[3] # "") =>
                        reportVulnerabilityOutcome(p, i[1], i[3]) = OK
            /\ \A i \in SubmitInputs :
                  /\ paused => submitAuditReportOutcome(p, i[1], i[2]) # OK
                  /\ (paused /\ hasRole(AUDITOR_ROLE, p)) =>
                        submitAuditReportOutcome(p, i[1], i[2]) = ErrEnforcedPause
                  /\ (~paused /\ hasRole(AUDITOR_ROLE, p) /\ i[1] # ZeroAddress
                        /\ i[2][1] + i[2][2] + i[2][3] + i[2][4] <= MaxUint) =>
                        submitAuditReportOutcome(p, i[1], i[2]) = OK
            /\ \A id \in IdInputs :
                  /\ verifyVulnerabilityOutcome(p, id) = OK <=>
                        (/\ hasRole(AUDITOR_ROLE, p)
                         /\ id < vulnerabilityCount
                         /\ ~vuln(id).verified)
                  /\ resolveVulnerabilityOutcome(p, id) = OK <=>
                        (/\ hasRole(AUDITOR_ROLE, p)
                         /\ id < vulnerabilityCount
                         /\ vuln(id).verified
                         /\ ~vuln(id).resolved))
    /\ [][UNCHANGED vars \/
          (paused => \A p \in Principals :
            /\ \A i \in ReportInputs, t \in TypeInputs, now \in Timestamps :
                  ReportVulnerability(p, i[1], t, i[2], i[3], now)
                      => UNCHANGED vars
            /\ \A i \in SubmitInputs, now \in Timestamps :
                  SubmitAuditReport(p, i[1], i[2][1], i[2][2], i[2][3],
                                    i[2][4], now) => UNCHANGED vars
            /\ \A id \in IdInputs :
                  /\ (verifyVulnerabilityOutcome(p, id) = OK
                        /\ VerifyVulnerability(p, id)) => vuln(id).verified'
                  /\ (resolveVulnerabilityOutcome(p, id) = OK
                        /\ ResolveVulnerability(p, id)) => vuln(id).resolved')]_vars

\* a paused ledger in which an auditor's verify of a Reported record succeeds
\* and its resolve of a Verified record succeeds, while a reporter's report
\* and an auditor's submitAuditReport are rejected with EnforcedPause
C8_Witness ==
    /\ paused
    /\ \E p \in Principals, i, j \in Ids :
          /\ verifyVulnerabilityOutcome(p, i) = OK
          /\ resolveVulnerabilityOutcome(p, j) = OK
    /\ \E p \in Principals, i \in ReportInputs :
          reportVulnerabilityOutcome(p, i[1], i[3]) = ErrEnforcedPause
    /\ \E p \in Principals, i \in SubmitInputs :
          submitAuditReportOutcome(p, i[1], i[2]) = ErrEnforcedPause

\* C9: resolveVulnerability on an existing record that is not verified is
\* rejected, with "Not verified" when the caller holds the Auditor role, and
\* leaves the record unverified and unresolved.
C9_ResolveNeedsVerified ==
    /\ [](\A p \in Principals, id \in Ids :
            ~vuln(id).verified =>
                /\ resolveVulnerabilityOutcome(p, id) # OK
                /\ hasRole(AUDITOR_ROLE, p) =>
                      resolveVulnerabilityOutcome(p, id) = ErrNotVerified)
    /\ [][UNCHANGED vars \/
          \A p \in Principals, id \in Ids :
            (~vuln(id).verified /\ ResolveVulnerability(p, id))
            => (~vuln(id).verified' /\ ~vuln(id).resolved')]_vars

\* an auditor's resolve of a Reported record is rejected with "Not verified"
C9_Witness ==
    \E p \in Principals, id \in Ids :
        /\ ~vuln(id).verified
        /\ ~vuln(id).resolved
        /\ resolveVulnerabilityOutcome(p, id) = ErrNotVerified

\* C10: for every record id at most one verify and at most one resolve
\* succeed, in any order of calls: a verify succeeds only on a record not yet
\* verified and leaves it verified, a resolve only on a record not yet
\* resolved and leaves it resolved, no flag is ever cleared, and afterwards an
\* auditor's verify of a verified (also of a resolved) record is rejected with
\* "Already verified" and its resolve of a resolved record with
\* "Already resolved".
C10_AtMostOnce ==
    /\ [](\A p \in Principals, id \in Ids :
            /\ vuln(id).verified =>
                  /\ verifyVulnerabilityOutcome(p, id) # OK
                  /\ hasRole(AUDITOR_ROLE, p) =>
                        verifyVulnerabilityOutcome(p, id) = ErrAlreadyVerified
            /\ vuln(id).resolved =>
                  /\ resolveVulnerabilityOutcome(p, id) # OK
                  /\ hasRole(AUDITOR_ROLE, p) =>
                        resolveVulnerabilityOutcome(p, id) = ErrAlreadyResolved)
    /\ [][UNCHANGED vars \/
          \A id \in Ids :
            /\ id < vulnerabilityCount'
            /\ vuln(id).verified => vuln(id).verified'
            /\ vuln(id).resolved => vuln(id).resolved'
            /\ \A p \in Principals :
                  /\ (verifyVulnerabilityOutcome(p, id) = OK
                        /\ VerifyVulnerability(p, id))
                     => (~vuln(id).verified /\ vuln(id).verified')
                  /\ (resolveVulnerabilityOutcome(p, id) = OK
                        /\ ResolveVulnerability(p, id))
                     => (~vuln(id).resolved /\ vuln(id).resolved')]_vars

\* a Resolved record on which an auditor's second verify and second resolve
\* are rejected with the two "already" errors
C10_Witness ==
    \E p \in Principals, id \in Ids :
        /\ vuln(id).verified
        /\ vuln(id).resolved
        /\ verifyVulnerabilityOutcome(p, id) = ErrAlreadyVerified
        /\ resolveVulnerabilityOutcome(p, id) = ErrAlreadyResolved

\* C11: verify(id) and resolve(id) with an id no report was given
\* (id >= vulnerabilityCount) are rejected; a holder of the Auditor role gets
\* "Invalid vulnerability ID" and no state-precondition error, whatever the
\* state of the ledger; the call changes nothing.
C11_UnknownId ==
    /\ [](\A p \in Principals, id \in IdInputs :
            ~(id < vulnerabilityCount) =>
                /\ verifyVulnerabilityOutcome(p, id) # OK
                /\ resolveVulnerabilityOutcome(p, id) # OK
                /\ hasRole(AUDITOR_ROLE, p) =>
                      /\ verifyVulnerabilityOutcome(p, id) = ErrInvalidId
                      /\ resolveVulnerabilityOutcome(p, id) = ErrInvalidId)
    /\ [][UNCHANGED vars \/
          \A p \in Principals, id \in IdInputs :
            (/\ ~(id < vulnerabilityCount)
             /\ VerifyVulnerability(p, id) \/ ResolveVulnerability(p, id))
            => UNCHANGED vars]_vars

\* one record exists and is verified; an auditor's verify and resolve of the
\* next id are rejected with "Invalid vulnerability ID"
C11_Witness ==
    \E p \in Principals :
        /\ vulnerabilityCount = 1
        /\ vuln(0).verified
        /\ verifyVulnerabilityOutcome(p, 1) = ErrInvalidId
        /\ resolveVulnerabilityOutcome(p, 1) = ErrInvalidId

\* C12: a report against the zero address is rejected, with "Invalid contract
\* address" for an unpaused holder of the Reporter role, and a report with an
\* empty description is rejected, with "Description required" for such a
\* caller when the target is not zero; either call adds no record, leaves
\* vulnerabilityCount as it was and blacklists nothing, severity Critical
\* included.
C12_InvalidReport ==
    /\ [](\A p \in Principals, i \in ReportInputs :
            /\ i[1] = ZeroAddress =>
                  /\ reportVulnerabilityOutcome(p, i[1], i[3]) # OK
                  /\ (hasRole(REPORTER_ROLE, p) /\ ~paused) =>
                        reportVulnerabilityOutcome(p, i[1], i[3])
                            = ErrInvalidAddress
            /\ i[3] = "" =>
                  /\ reportVulnerabilityOutcome(p, i[1], i[3]) # OK
                  /\ (hasRole(REPORTER_ROLE, p) /\ ~paused
                        /\ i[1] # ZeroAddress) =>
                        reportVulnerabilityOutcome(p, i[1], i[3])
                            = ErrDescription)
    /\ [][UNCHANGED vars \/
          \A p \in Principals, i \in ReportInputs, t \in TypeInputs,
             now \in Timestamps :
            (/\ i[1] = ZeroAddress \/ i[3] = ""
             /\ ReportVulnerability(p, i[1], t, i[2], i[3], now))
            => /\ vulnerabilities' = vulnerabilities
               /\ vulnerabilityCount' = vulnerabilityCount
               /\ blacklistedContracts' = blacklistedContracts]_vars

\* a reporter's Critical reports with a zero target and with an empty
\* description are rejected with their errors while the ledger holds a
\* record and the target of the second is not blacklisted
C12_Witness ==
    \E p \in Principals, i, j \in ReportInputs :
        /\ i[2] = CRITICAL /\ j[2] = CRITICAL
        /\ reportVulnerabilityOutcome(p, i[1], i[3]) = ErrInvalidAddress
        /\ reportVulnerabilityOutcome(p, j[1], j[3]) = ErrDescription
        /\ ~blacklistedContracts[j[1]]
        /\ vulnerabilityCount = 1

\* C13: ids are given out 0, 1, 2, ... in the order of the successful
\* reports: vulnerabilityCount is the number of records, it never decreases,
\* a successful report returns the number of records made before it, stores
\* its record under that id and raises vulnerabilityCount by one, the record
\* under an id is never replaced by another report, and a rejected report
\* leaves vulnerabilityCount and the records as they were.
C13_SequentialIds ==
    /\ [](vulnerabilityCount = Len(vulnerabilities))
    /\ [][UNCHANGED vars \/
          /\ vulnerabilityCount' >= vulnerabilityCount
          /\ \A id \in Ids :
                /\ id < vulnerabilityCount'
                /\ [vuln(id)' EXCEPT !.verified = FALSE, !.resolved = FALSE]
                      = [vuln(id) EXCEPT !.verified = FALSE, !.resolved = FALSE]
          /\ \A p \in Principals, i \in ReportInputs, t \in TypeInputs,
                now \in Timestamps :
                ReportVulnerability(p, i[1], t, i[2], i[3], now) =>
                    IF reportVulnerabilityOutcome(p, i[1], i[3]) = OK
                    THEN LET id == vulnId IN
                         /\ id = Len(vulnerabilities)
                         /\ vulnerabilityCount' = id + 1
                         /\ vulnerabilities'[id + 1] =
                               newVulnerability(p, i[1], t, i[2], i[3], now)
                    ELSE /\ vulnerabilityCount' = vulnerabilityCount
                         /\ vulnerabilities' = vulnerabilities]_vars

\* two successful reports by different reporters against different
\* contracts: the first holds id 0 and the second id 1
C13_Witness ==
    /\ vulnerabilityCount = 2
    /\ vuln(0).contractAddress = 1
    /\ vuln(1).contractAddress = 2
    /\ vuln(0).reporter # vuln(1).reporter
    /\ vuln(0).verified

\* C14: the audit history of every contract only grows at its end: every
\* step keeps each history as a prefix of what it becomes, a history grows
\* only by a successful submitAuditReport for that contract, such a call
\* lengthens that history by one and no other history, and right after it
\* getLatestAuditReport of the contract succeeds and returns the report made
\* by that call.
C14_AppendOnly ==
    [][UNCHANGED vars \/
       /\ \A c \in Addresses :
             /\ Len(auditReports'[c]) >= Len(auditReports[c])
             /\ SubSeq(auditReports'[c], 1, Len(auditReports[c]))
                   = auditReports[c]
             /\ Len(auditReports'[c]) > Len(auditReports[c]) =>
                   \E p \in Principals, i \in SubmitInputs, now \in Timestamps :
                       /\ i[1] = c
                       /\ submitAuditReportOutcome(p, i[1], i[2]) = OK
                       /\ SubmitAuditReport(p, i[1], i[2][1], i[2][2], i[2][3],
                                            i[2][4], now)
       /\ \A p \in Principals, i \in SubmitInputs, now \in Timestamps :
             (/\ submitAuditReportOutcome(p, i[1], i[2]) = OK
              /\ SubmitAuditReport(p, i[1], i[2][1], i[2][2], i[2][3], i[2][4],
                                   now))
             => /\ Len(auditReports'[i[1]]) = Len(auditReports[i[1]]) + 1
                /\ getLatestAuditReportOutcome(i[1])' = OK
                /\ latestAuditReport(i[1])' =
                      newAuditReport(p, i[1], i[2][1], i[2][2], i[2][3],
                                     i[2][4], now)
                /\ \A c \in Addresses \ {i[1]} :
                      auditReports'[c] = auditReports[c]]_vars

\* a history of two different reports, the later one returned as the latest,
\* beside a contract without a report whose latest report cannot be read
C14_Witness ==
    \E c, e \in Contracts :
        /\ Len(auditReports[c]) = 2
        /\ auditReports[c][1].isSecure
        /\ ~auditReports[c][2].isSecure
        /\ getLatestAuditReportOutcome(c) = OK
        /\ latestAuditReport(c) = auditReports[c][2]
        /\ getLatestAuditReportOutcome(e) = ErrNoAuditReports

\* the events a step appends to the log
newEvents == SubSeq(events', Len(events) + 1, Len(events'))

\* the callers an event names
actors(e) ==
    {e[f] : f \in DOMAIN e \cap {"reporter", "verifier", "resolver", "auditor"}}

\* C15 as amended: every call is all-or-nothing.  A rejected call changes
\* neither the storage nor the log.  A successful call has its whole effect
\* and appends its event: VulnerabilityReported with the new id, the target
\* and the caller (followed by ContractBlacklisted for a Critical report),
\* VulnerabilityVerified and VulnerabilityResolved with the id and the
\* caller, AuditReportSubmitted with the contract and the caller (followed
\* by ContractBlacklisted when critical > 0), ContractBlacklisted with the
\* contract and the reason but no caller, ContractWhitelisted with the
\* contract alone.  No step changes records, count, histories or blacklist
\* flags without appending an event.
C15_AllOrNothing ==
    [][UNCHANGED logVars \/
       /\ ledger' # ledger => Len(events') > Len(events)
       /\ \A p \in Principals :
          /\ \A i \in ReportInputs, t \in TypeInputs, now \in Timestamps :
                Logged(ReportVulnerability(p, i[1], t, i[2], i[3], now),
                       reportVulnerabilityOutcome(p, i[1], i[3]),
                       reportVulnerabilityEvents(p, i[1], t, i[2]))
                => IF reportVulnerabilityOutcome(p, i[1], i[3]) # OK
                   THEN UNCHANGED logVars
                   ELSE /\ vulnerabilityCount' = vulnerabilityCount + 1
                        /\ vulnerabilities'[vulnerabilityCount'].reporter = p
                        /\ i[2] = CRITICAL => blacklistedContracts'[i[1]]
                        /\ newEvents[1] = VulnerabilityReported(
                              vulnerabilityCount, i[1], t, i[2], p)
                        /\ Len(newEvents) = IF i[2] = CRITICAL THEN 2 ELSE 1
                        /\ i[2] = CRITICAL =>
                              /\ newEvents[2].event = "ContractBlacklisted"
                              /\ newEvents[2].contractAddress = i[1]
          /\ \A id \in IdInputs :
                /\ Logged(VerifyVulnerability(p, id),
                          verifyVulnerabilityOutcome(p, id),
                          verifyVulnerabilityEvents(p, id))
                   => IF verifyVulnerabilityOutcome(p, id) # OK
                      THEN UNCHANGED logVars
                      ELSE /\ vuln(id).verified'
                           /\ newEvents = <<VulnerabilityVerified(id, p)>>
                /\ Logged(ResolveVulnerability(p, id),
                          resolveVulnerabilityOutcome(p, id),
                          resolveVulnerabilityEvents(p, id))
                   => IF resolveVulnerabilityOutcome(p, id) # OK
                      THEN UNCHANGED logVars
                      ELSE /\ vuln(id).resolved'
                           /\ newEvents = <<VulnerabilityResolved(id, p)>>
          /\ \A i \in SubmitInputs, now \in Timestamps :
                Logged(SubmitAuditReport(p, i[1], i[2][1], i[2][2], i[2][3],
                                         i[2][4], now),
                       submitAuditReportOutcome(p, i[1], i[2]),
                       submitAuditReportEvents(p, i[1], i[2][1], i[2][2]))
                => IF submitAuditReportOutcome(p, i[1], i[2]) # OK
                   THEN UNCHANGED logVars
                   ELSE /\ Len(auditReports'[i[1]])
                              = Len(auditReports[i[1]]) + 1
                        /\ latestAuditReport(i[1])'.auditor = p
                        /\ i[2][1] > 0 => blacklistedContracts'[i[1]]
                        /\ newEvents[1].event = "AuditReportSubmitted"
                        /\ newEvents[1].contractAddress = i[1]
                        /\ newEvents[1].auditor = p
                        /\ newEvents[1].isSecure
                              = latestAuditReport(i[1])'.isSecure
                        /\ Len(newEvents) = IF i[2][1] > 0 THEN 2 ELSE 1
                        /\ i[2][1] > 0 =>
                              /\ newEvents[2].event = "ContractBlacklisted"
                              /\ newEvents[2].contractAddress = i[1]
          /\ \A c \in Contracts :
                /\ \A reason \in ReasonInputs :
                      Logged(BlacklistContract(p, c),
                             blacklistContractOutcome(p),
                             blacklistContractEvents(c, reason))
                      => IF blacklistContractOutcome(p) # OK
                         THEN UNCHANGED logVars
                         ELSE /\ blacklistedContracts'[c]
                              /\ newEvents = <<ContractBlacklisted(c, reason)>>
                              /\ actors(newEvents[1]) = {}
                /\ Logged(WhitelistContract(p, c), whitelistContractOutcome(p),
                          whitelistContractEvents(c))
                   => IF whitelistContractOutcome(p) # OK
                      THEN UNCHANGED logVars
                      ELSE /\ ~blacklistedContracts'[c]
                           /\ newEvents = <<ContractWhitelisted(c)>>
                           /\ actors(newEvents[1]) = {}]_logVars

\* a log of three events: a Critical report with its two events, then the
\* whitelisting of the reported contract
C15_Witness ==
    /\ Len(events) = 3
    /\ events[1].event = "VulnerabilityReported"
    /\ events[2].event = "ContractBlacklisted"
    /\ events[3].event = "ContractWhitelisted"
    /\ events[1].contractAddress = events[3].contractAddress
    /\ vulnerabilityCount = 1
    /\ ~blacklistedContracts[events[3].contractAddress]

\* C15 as stated: every event a successful call appends names the caller of
\* that call.
C15_EveryEventNamesCaller ==
    [][UNCHANGED logVars \/
       \A p \in Principals :
          (\/ \E i \in ReportInputs, t \in TypeInputs, now \in Timestamps :
                /\ reportVulnerabilityOutcome(p, i[1], i[3]) = OK
                /\ Logged(ReportVulnerability(p, i[1], t, i[2], i[3], now),
                          reportVulnerabilityOutcome(p, i[1], i[3]),
                          reportVulnerabilityEvents(p, i[1], t, i[2]))
           \/ \E id \in IdInputs :
                \/ /\ verifyVulnerabilityOutcome(p, id) = OK
                   /\ Logged(VerifyVulnerability(p, id),
                             verifyVulnerabilityOutcome(p, id),
                             verifyVulnerabilityEvents(p, id))
                \/ /\ resolveVulnerabilityOutcome(p, id) = OK
                   /\ Logged(ResolveVulnerability(p, id),
                             resolveVulnerabilityOutcome(p, id),
                             resolveVulnerabilityEvents(p, id))
           \/ \E i \in SubmitInputs, now \in Timestamps :
                /\ submitAuditReportOutcome(p, i[1], i[2]) = OK
                /\ Logged(SubmitAuditReport(p, i[1], i[2][1], i[2][2],
                                            i[2][3], i[2][4], now),
                          submitAuditReportOutcome(p, i[1], i[2]),
                          submitAuditReportEvents(p, i[1], i[2][1], i[2][2]))
           \/ \E c \in Contracts, reason \in ReasonInputs :
                /\ blacklistContractOutcome(p) = OK
                /\ Logged(BlacklistContract(p, c), blacklistContractOutcome(p),
                          blacklistContractEvents(c, reason))
           \/ \E c \in Contracts :
                /\ whitelistContractOutcome(p) = OK
                /\ Logged(WhitelistContract(p, c), whitelistContractOutcome(p),
                          whitelistContractEvents(c)))
          => /\ Len(newEvents) > 0
             /\ \A k \in 1..Len(newEvents) : actors(newEvents[k]) = {p}]_logVars

\* ------------------------------------------------------- analyzer claims
\* a getCombinedAnalysis call that returned its combined result
combinedReturned ==
    pc = "done" /\ op = "getCombinedAnalysis" /\ returned.status = "fulfilled"

\* the (category, description) pair of a finding
pairOf(v) == <<v.type, v.description>>

\* C16: the list getCombinedAnalysis returns has no two findings with the
\* same (category, description), holds every pair that occurs in the result
\* of an engine exactly once and no other pair, and summary.total is the
\* number of distinct pairs.
C16_DistinctKeys ==
    combinedReturned =>
        LET out == returned.value.vulnerabilities
            all == allVulnerabilities(results)
        IN  /\ \A i, j \in 1..Len(out) :
                  pairOf(out[i]) = pairOf(out[j]) => i = j
            /\ \A n \in 1..Len(all) :
                  Cardinality({i \in 1..Len(out) :
                                  pairOf(out[i]) = pairOf(all[n])}) = 1
            /\ \A i \in 1..Len(out) :
                  \E n \in 1..Len(all) : pairOf(all[n]) = pairOf(out[i])
            /\ returned.value.summary.total
                  = Cardinality({pairOf(all[n]) : n \in 1..Len(all)})

\* both engines returned findings, one pair occurs in both results and one
\* pair twice in the first: the combined list is shorter than their
\* concatenation
C16_Witness ==
    /\ combinedReturned
    /\ Len(results) = 2
    /\ \E i \in 1..Len(results[1].vulnerabilities),
          j \in 1..Len(results[2].vulnerabilities) :
          pairOf(results[1].vulnerabilities[i])
              = pairOf(results[2].vulnerabilities[j])
    /\ \E i, j \in 1..Len(results[1].vulnerabilities) :
          /\ i # j
          /\ pairOf(results[1].vulnerabilities[i])
                = pairOf(results[1].vulnerabilities[j])
    /\ Len(returned.value.vulnerabilities) = 2
    /\ Len(allVulnerabilities(results)) = 4

\* C17: of the findings with one (category, description) the combined list
\* keeps the first of the concatenation, with its own severity, title and
\* location, and the kept findings stand in the order of their first
\* occurrence.
C17_FirstOccurrenceKept ==
    combinedReturned =>
        LET out == returned.value.vulnerabilities
            all == allVulnerabilities(results)
            first(n) == \A m \in 1..(n - 1) : pairOf(all[m]) # pairOf(all[n])
            firsts == SelectSeq([n \in 1..Len(all) |-> n], first)
        IN  /\ Len(out) = Len(firsts)
            /\ \A i \in 1..Len(firsts) : out[i] = all[firsts[i]]

\* C18: every result of an engine and every combined result has isSecure
\* TRUE exactly when summary.critical = 0 and summary.high = 0, and these two
\* counts are the numbers of CRITICAL and of HIGH findings in the list of
\* the result.
C18_SecureVerdict ==
    LET sound(r) ==
            /\ r.isSecure <=> (r.summary.critical = 0 /\ r.summary.high = 0)
            /\ r.summary.critical =
                  Cardinality({i \in 1..Len(r.vulnerabilities) :
                                  r.vulnerabilities[i].severity = "CRITICAL"})
            /\ r.summary.high =
                  Cardinality({i \in 1..Len(r.vulnerabilities) :
                                  r.vulnerabilities[i].severity = "HIGH"})
    IN  /\ \A k \in 1..Len(results) : sound(results[k])
        /\ combinedReturned => sound(returned.value)

\* with excludeInformational set: a secure result of Mythril beside a result
\* of Slither with a HIGH finding, and the combined result not secure
C18_Witness ==
    /\ combinedReturned
    /\ config.excludeInformational
    /\ Len(results) = 2
    /\ results[1].summary.high = 1
    /\ results[1].summary.critical = 0
    /\ ~results[1].isSecure
    /\ results[2].isSecure
    /\ ~returned.value.isSecure

\* C19: with excludeInformational set, the result of an engine holds no
\* INFORMATIONAL finding, its summary.total is the number of findings it
\* holds and its summary.informational is 0.
C19_SummaryOfFiltered ==
    config.excludeInformational =>
        \A k \in 1..Len(results) :
            /\ \A i \in 1..Len(results[k].vulnerabilities) :
                  results[k].vulnerabilities[i].severity # "INFORMATIONAL"
            /\ results[k].summary.total = Len(results[k].vulnerabilities)
            /\ results[k].summary.informational = 0

\* C20: a call fails, with the no-analyzers error, exactly when no engine
\* gave a result; with at least one result it returns (analyzeContract the
\* results, getCombinedAnalysis findings of those results only); nothing is
\* settled before the last engine was dealt with; an engine that is not
\* available or whose analysis fails adds nothing to the results and the
\* call goes on to the next engine.
C20_NoAnalyzersOnly ==
    /\ [](/\ pc # "done" => returned.status = "pending"
          /\ pc = "done" =>
                /\ returned.status = "rejected" <=> Len(results) = 0
                /\ returned.status = "fulfilled" <=> Len(results) > 0
                /\ returned.status = "rejected" =>
                      returned.error = ErrNoAnalyzers
                /\ (returned.status = "fulfilled" /\ op = "analyzeContract")
                      => returned.value = results
                /\ combinedReturned =>
                      \A i \in 1..Len(returned.value.vulnerabilities) :
                          \E k \in 1..Len(results) :
                              \E n \in 1..Len(results[k].vulnerabilities) :
                                  results[k].vulnerabilities[n]
                                      = returned.value.vulnerabilities[i])
    /\ [][UNCHANGED avars \/
          /\ \A available \in BOOLEAN :
                /\ SlitherIsAvailable(available) =>
                      /\ results' = results
                      /\ pc' = IF available THEN "slither.analyze"
                                ELSE "mythril.isAvailable"
                /\ MythrilIsAvailable(available) =>
                      /\ results' = results
                      /\ pc' = IF available THEN "mythril.analyze" ELSE "return"
          /\ pc = "slither.analyze" =>
                /\ pc' = "mythril.isAvailable"
                /\ IF results' = results
                   THEN \A run \in SlitherRuns :
                            (run.installed /\ run.exit = 0 /\ run.parseable)
                                => ~SlitherAnalyze(run)
                   ELSE /\ Len(results') = Len(results) + 1
                        /\ results'[Len(results')].analyzer = "Slither"
                        /\ \A run \in SlitherRuns :
                              ~(run.installed /\ run.exit = 0 /\ run.parseable)
                                  => ~SlitherAnalyze(run)
          /\ pc = "mythril.analyze" =>
                /\ pc' = "return"
                /\ IF results' = results
                   THEN \A run \in MythrilRuns :
                            (run.installed /\ run.parseable)
                                => ~MythrilAnalyze(run)
                   ELSE /\ Len(results') = Len(results) + 1
                        /\ results'[Len(results')].analyzer = "Mythril"
                        /\ \A run \in MythrilRuns :
                              ~(run.installed /\ run.parseable)
                                  => ~MythrilAnalyze(run)]_avars

\* Slither gave no result and Mythril did: getCombinedAnalysis returned the
\* findings of Mythril alone
C20_Witness ==
    /\ combinedReturned
    /\ Len(results) = 1
    /\ results[1].analyzer = "Mythril"
    /\ Len(results[1].vulnerabilities) = 2
    /\ returned.value.vulnerabilities = results[1].vulnerabilities

\* the single-engine scans the other engine could have made: what
\* getCombinedAnalysis returns when that engine alone succeeds
scansOf(name, cfg) ==
    IF name = "Slither"
    THEN {combinedAnalysis(<<Slither_analyze(run, cfg)>>) :
             run \in {x \in SlitherRuns : Slither_succeeds(x)}}
    ELSE {combinedAnalysis(<<Mythril_analyze(run, cfg)>>) :
             run \in {x \in MythrilRuns : Mythril_succeeds(x)}}

otherEngine(name) == IF name = "Slither" THEN "Mythril" ELSE "Slither"

\* one engine was unavailable or failed and the other gave the only result
partialSuccess == combinedReturned /\ Len(results) = 1

slitherInProgress == pc \in {"slither.isAvailable", "slither.analyze"}

mythrilInProgress == pc \in {"mythril.isAvailable", "mythril.analyze"}

hasResultOf(name) == \E k \in 1..Len(results) : results[k].analyzer = name

\* the time the engine contributes: that of its result, nothing without one
timeOf(name) ==
    IF hasResultOf(name)
    THEN (CHOOSE r \in {results[k] : k \in 1..Len(results)} :
              r.analyzer = name).executionTime
    ELSE 0

\* C23: the merge of getCombinedAnalysis starts only after the invocation
\* of every engine has settled: the list to merge is returned by the step
\* that follows the settling of the last engine (Mythril unavailable, or
\* its analysis returned or failed), Mythril is probed in every call, the
\* merge takes the list as it then stands, and no result is added and no
\* engine is running from then on until the call has settled.
C23_MergeAfterAllSettled ==
    /\ [](/\ pc \in {"return", "merge", "done"}
                => ~slitherInProgress /\ ~mythrilInProgress
          /\ combinedReturned =>
                returned.value.vulnerabilities
                    = uniqueVulnerabilities(allVulnerabilities(results)))
    /\ [][UNCHANGED avars \/
          /\ (pc' = "return" /\ pc # pc') =>
                \/ pc = "mythril.analyze"
                \/ pc = "mythril.isAvailable" /\ results' = results
          /\ (pc' = "merge" /\ pc # pc') => pc = "return"
          /\ (returned'.status = "fulfilled" /\ returned.status = "pending"
                  /\ op = "getCombinedAnalysis") => pc = "merge"
          /\ pc \in {"return", "merge"} => results' = results
          /\ (pc = "mythril.isAvailable" /\ pc' = "return")
                => \E available \in BOOLEAN :
                      ~available /\ MythrilIsAvailable(available)]_avars

\* both engines returned findings and the merge is about to start
C23_Witness ==
    /\ pc = "merge"
    /\ Len(results) = 2
    /\ Len(results[1].vulnerabilities) > 0
    /\ Len(results[2].vulnerabilities) > 0

\* C24: every call of the analyzer eventually settles, whatever the engine
\* processes do.
C24_EventuallySettles == (pc # "idle") ~> (pc = "done")

\* C25: an adapter whose process emitted parseable JSON returns a result
\* built from it whatever the exit code, Slither as well as Mythril: the
\* analysis step of such a run adds the result of that engine.
C25_NonZeroExitParsed ==
    [][UNCHANGED avars \/
       /\ pc = "slither.analyze" =>
             \A run \in SlitherRuns :
                 (run.installed /\ run.parseable /\ SlitherAnalyze(run))
                     => /\ Len(results') = Len(results) + 1
                        /\ results'[Len(results')]
                              = Slither_analyze(run, config)
       /\ pc = "mythril.analyze" =>
             \A run \in MythrilRuns :
                 (run.installed /\ run.parseable /\ MythrilAnalyze(run))
                     => /\ Len(results') = Len(results) + 1
                        /\ results'[Len(results')]
                              = Mythril_analyze(run, config)]_avars

\* C26: the executionTime of the result getCombinedAnalysis returns is the
\* sum of the executionTime of exactly the engines whose analysis succeeded:
\* each engine has at most one result, the time of an engine with a result
\* is counted once, and an engine that was unavailable or failed counts 0.
C26_ExecutionTimeSum ==
    combinedReturned =>
        /\ \A j, k \in 1..Len(results) :
               /\ results[k].analyzer \in {"Slither", "Mythril"}
               /\ results[j].analyzer = results[k].analyzer => j = k
        /\ returned.value.executionTime
               = timeOf("Slither") + timeOf("Mythril")

\* both engines succeeded, one took 1 and the other 2: the scan took 3
C26_Witness ==
    /\ combinedReturned
    /\ Len(results) = 2
    /\ results[1].executionTime = 1
    /\ results[2].executionTime = 2
    /\ returned.value.executionTime = 3

\* the title keywords in the order they decide, each with its category
TitleKeywords ==
    << <<{"reentrancy"}, "REENTRANCY">>,
       <<{"timestamp"}, "TIMESTAMP_DEPENDENCY">>,
       <<{"tx.origin"}, "TX_ORIGIN">>,
       <<{"delegatecall"}, "DELEGATECALL">>,
       <<{"overflow", "underflow"}, "INTEGER_OVERFLOW">>,
       <<{"access control"}, "ACCESS_CONTROL">>,
       <<{"randomness"}, "WEAK_RANDOMNESS">> >>

\* the places of the keywords the title holds, whatever the case
keywordsIn(title) ==
    {n \in 1..Len(TitleKeywords) :
        \E word \in TitleKeywords[n][1] : includes(toLowerCase(title), word)}

\* C27: the category of every parsed finding is a member of the enum; a
\* native identifier that is a key of the engine's table yields the
\* category the table names, whatever the title; otherwise, for Mythril,
\* the first keyword of the order that the title holds decides; and when
\* nothing matches the category is ACCESS_CONTROL.
C27_CategoryTotal ==
    \A k \in 1..Len(adapter.vulnerabilities) :
        LET native == adapter.output[k]
            type == adapter.vulnerabilities[k].type
        IN  /\ type \in VulnerabilityTypes
            /\ adapter.engine = "Slither" =>
                   type = IF native.check \in DOMAIN SlitherTypes
                          THEN SlitherTypes[native.check]
                          ELSE "ACCESS_CONTROL"
            /\ adapter.engine = "Mythril" =>
                   type = IF native.swcID \in DOMAIN SwcTypes
                          THEN SwcTypes[native.swcID]
                          ELSE IF keywordsIn(native.title) # {}
                          THEN LET first == CHOOSE n \in keywordsIn(native.title) :
                                       \A m \in keywordsIn(native.title) : n <= m
                               IN  TitleKeywords[first][2]
                          ELSE "ACCESS_CONTROL"

\* the level of a native label: 4 High, 3 Medium, 2 Low, 1 Informational
\* (for Slither Optimization too), 0 a label the engine's table lacks;
\* Mythril's labels count in any case of the letters
nativeLevel(engine, label) ==
    LET l == IF engine = "Mythril" THEN toLowerCase(label) ELSE label
        name == IF engine = "Mythril"
                THEN <<"informational", "low", "medium", "high">>
                ELSE <<"Informational", "Low", "Medium", "High">>
    IN  IF l = name[4] THEN 4
        ELSE IF l = name[3] THEN 3
        ELSE IF l = name[2] THEN 2
        ELSE IF l = name[1] \/ (engine = "Slither" /\ l = "Optimization") THEN 1
        ELSE 0

\* the members of Severity from the least to the most severe
severityRank ==
    [INFORMATIONAL |-> 0, LOW |-> 1, MEDIUM |-> 2, HIGH |-> 3, CRITICAL |-> 4]

index == replay(events)

\* the ids of the audit reports the read model holds for a contract
indexedReports(c) ==
    {id \in DOMAIN index.auditReports :
        index.auditReports[id].contractAddress = c}

\* the read model has the ledger's blacklist flag of every contract
flagsAgree ==
    \A c \in Addresses :
        blacklistedContracts[c]
            = (/\ toHexString(c) \in DOMAIN index.contracts
               /\ index.contracts[toHexString(c)].isBlacklisted)

\* C29: the replay of the event stream equals the ledger: the same
\* vulnerability records (contract, type, severity, reporter, timestamp)
\* with the same verified and resolved flags, the same blacklist flag of
\* every contract, and for every contract as many audit reports as the
\* ledger holds, each with its per-severity counts and its secure flag.
C29_ReplayEqualsLedger ==
    /\ DOMAIN index.vulnerabilities = {ToString(id) : id \in Ids}
    /\ \A id \in Ids :
           \A f \in {"contractAddress", "vulnType", "severity", "reporter",
                      "timestamp", "verified", "resolved"} :
               index.vulnerabilities[ToString(id)][f] = vuln(id)[f]
    /\ flagsAgree
    /\ \A c \in Addresses :
           /\ Cardinality(indexedReports(c)) = Len(auditReports[c])
           /\ \A k \in 1..Len(auditReports[c]) :
                  \E id \in indexedReports(c) :
                      \A f \in {"totalVulnerabilities", "criticalCount",
                                 "highCount", "mediumCount", "lowCount",
                                 "isSecure"} :
                          index.auditReports[id][f] = auditReports[c][k][f]

\* What the replay does give: the ledger's vulnerability records but for
\* their description, the ledger's blacklist flags, and for every contract
\* one audit report for each block timestamp at which reports of it were
\* submitted, with the auditor and the secure flag of the last of them and
\* every count 0.
ReplayOfEvents ==
    /\ DOMAIN index.vulnerabilities = {ToString(id) : id \in Ids}
    /\ \A id \in Ids :
           \A f \in {"contractAddress", "vulnType", "severity", "reporter",
                      "timestamp", "verified", "resolved"} :
               index.vulnerabilities[ToString(id)][f] = vuln(id)[f]
    /\ flagsAgree
    /\ \A c \in Addresses :
           LET submitted ==
                   {auditReports[c][k].timestamp : k \in 1..Len(auditReports[c])}
           IN  /\ {index.auditReports[id].timestamp : id \in indexedReports(c)}
                      = submitted
               /\ Cardinality(indexedReports(c)) = Cardinality(submitted)
               /\ \A id \in indexedReports(c) :
                      LET entity == index.auditReports[id]
                          last == CHOOSE k \in 1..Len(auditReports[c]) :
                                     /\ auditReports[c][k].timestamp
                                            = entity.timestamp
                                     /\ \A j \in 1..Len(auditReports[c]) :
                                            auditReports[c][j].timestamp
                                                = entity.timestamp => j <= k
                      IN  /\ entity.auditor = auditReports[c][last].auditor
                          /\ entity.isSecure = auditReports[c][last].isSecure
                          /\ \A f \in {"totalVulnerabilities", "criticalCount",
                                         "highCount", "mediumCount", "lowCount"} :
                                 entity[f] = 0

\* The calls that name a contract address, each with the arguments that
\* bear on flags and histories (for submitAuditReport the timestamp of its
\* block too); a field a function does not take is left at one value.
AddressOps ==
    {[f |-> "reportVulnerability", sender |-> p, c |-> i[1], s |-> i[2],
      d |-> i[3], counts |-> <<0, 0, 0, 0>>, now |-> 0] :
        p \in Principals, i \in ReportInputs}
    \cup
    {[f |-> "submitAuditReport", sender |-> p, c |-> i[1], s |-> LOW,
      d |-> "", counts |-> i[2], now |-> now] :
        p \in Principals, i \in SubmitInputs, now \in BlockTimestamps}
    \cup
    {[f |-> g, sender |-> p, c |-> c, s |-> LOW, d |-> "",
      counts |-> <<0, 0, 0, 0>>, now |-> 0] :
        g \in {"blacklistContract", "whitelistContract"}, p \in Principals,
        c \in Contracts}

\* the step of the ledger that is the call o
callOf(o) ==
    CASE o.f = "reportVulnerability" ->
             \E t \in TypeInputs, now \in BlockTimestamps :
                 ReportVulnerability(o.sender, o.c, t, o.s, o.d, now)
      [] o.f = "submitAuditReport" ->
             SubmitAuditReport(o.sender, o.c, o.counts[1], o.counts[2],
                               o.counts[3], o.counts[4], o.now)
      [] o.f = "blacklistContract" -> BlacklistContract(o.sender, o.c)
      [] o.f = "whitelistContract" -> WhitelistContract(o.sender, o.c)

\* how the call o ends
outcomeOf(o) ==
    CASE o.f = "reportVulnerability" ->
             reportVulnerabilityOutcome(o.sender, o.c, o.d)
      [] o.f = "submitAuditReport" ->
             submitAuditReportOutcome(o.sender, o.c, o.counts)
      [] o.f = "blacklistContract" -> blacklistContractOutcome(o.sender)
      [] o.f = "whitelistContract" -> whitelistContractOutcome(o.sender)

\* the blacklist flags and the audit histories after the call o, from those
\* before it (roles and pause state as they are: no such call changes them)
after(o, st) ==
    IF outcomeOf(o) # OK THEN st
    ELSE CASE o.f = "reportVulnerability" ->
                  IF reportBlacklists(o.s)
                  THEN [st EXCEPT !.blacklisted = _blacklistContract(@, o.c)]
                  ELSE st
           [] o.f = "submitAuditReport" ->
                  [blacklisted |->
                       IF auditBlacklists(o.counts[1])
                       THEN _blacklistContract(st.blacklisted, o.c)
                       ELSE st.blacklisted,
                   reports |->
                       [st.reports EXCEPT ![o.c] =
                           Append(@, newAuditReport(o.sender, o.c, o.counts[1],
                                                    o.counts[2], o.counts[3],
                                                    o.counts[4], o.now))]]
           [] o.f = "blacklistContract" ->
                  [st EXCEPT !.blacklisted = _blacklistContract(@, o.c)]
           [] o.f = "whitelistContract" ->
                  [st EXCEPT !.blacklisted[o.c] = FALSE]

\* the blacklist flags and the audit histories of the ledger
perAddress == [blacklisted |-> blacklistedContracts, reports |-> auditReports]

\* what the ledger holds and answers about the address b
viewOf(b) == <<blacklistedContracts[b], auditReports[b], isContractSafe(b)>>

\* C30: operations on different contract addresses are independent.  A
\* step that changes the blacklist flag, the audit history or the
\* isContractSafe result of an address is a call that names this address
\* and leaves the three as they were for every other address; every call
\* that names an address leaves roles and pause state alone and gives the
\* flags and histories of after; and two calls that name different
\* addresses give the same flags and histories in either order (a rejected
\* call gives those it found, before and after any other call).
C30_AddressesIndependent ==
    /\ [][UNCHANGED vars \/
          /\ \A b \in Addresses :
                 viewOf(b)' # viewOf(b)
                     => /\ \E o \in AddressOps : o.c = b /\ callOf(o)
                        /\ \A x \in Addresses \ {b} : viewOf(x)' = viewOf(x)
          /\ \A o \in AddressOps :
                 callOf(o) => /\ perAddress' = after(o, perAddress)
                              /\ UNCHANGED <<roles, paused>>]_vars
    /\ [](LET accepted == {o \in AddressOps : outcomeOf(o) = OK}
              alone == [o \in accepted |-> after(o, perAddress)]
          IN  /\ \A o \in AddressOps \ accepted :
                     after(o, perAddress) = perAddress
              /\ \A o1, o2 \in accepted :
                     o1.c < o2.c
                         => after(o2, alone[o1]) = after(o1, alone[o2]))

\* both contracts have been acted on: the first has an audit report and is
\* not blacklisted, the second was blacklisted by a Critical report
C30_Witness ==
    /\ Len(auditReports[1]) = 1
    /\ ~blacklistedContracts[1]
    /\ isContractSafe(1)
    /\ blacklistedContracts[2]
    /\ Len(auditReports[2]) = 0
    /\ \E id \in Ids : vuln(id).contractAddress = 2

\* C31: a vulnerability record, once created, is never deleted and keeps
\* its target contract, category, severity, description, reporter and
\* timestamp through every step; its verified flag changes only by a
\* verifyVulnerability of its id and its resolved flag only by a
\* resolveVulnerability of its id, and such a step changes that one flag of
\* that one record and nothing else of any record.
C31_RecordImmutable ==
    [][UNCHANGED vars \/
       \A id \in Ids :
          /\ id < vulnerabilityCount'
          /\ id + 1 <= Len(vulnerabilities')
          /\ \A f \in {"contractAddress", "vulnType", "severity", "description",
                        "reporter", "timestamp"} :
                 vulnerabilities'[id + 1][f] = vuln(id)[f]
          /\ vulnerabilities'[id + 1].verified # vuln(id).verified
                 => /\ \E p \in Principals : VerifyVulnerability(p, id)
                    /\ vulnerabilities'[id + 1].resolved = vuln(id).resolved
                    /\ \A other \in Ids \ {id} :
                           vulnerabilities'[other + 1] = vuln(other)
          /\ vulnerabilities'[id + 1].resolved # vuln(id).resolved
                 => /\ \E p \in Principals : ResolveVulnerability(p, id)
                    /\ vulnerabilities'[id + 1].verified = vuln(id).verified
                    /\ \A other \in Ids \ {id} :
                           vulnerabilities'[other + 1] = vuln(other)]_vars

\* a Critical record verified and resolved, as reported, beside a later
\* record that no one has verified
C31_Witness ==
    /\ vulnerabilityCount = 2
    /\ vuln(0) = [newVulnerability(Deployer, 1, REENTRANCY, CRITICAL, "d", 100)
                      EXCEPT !.verified = TRUE, !.resolved = TRUE]
    /\ ~vuln(1).verified

\* a call of checkAvailability is running or has just settled
checking == op = "checkAvailability"

\* C32: checkAvailability is a pure query.  The call is never rejected; it
\* settles with a map of two booleans, which is the host's availability of
\* slither and mythril whenever the host has not changed since the call
\* began (so that calls repeated on an unchanged host return the same map);
\* and its steps change neither the results and the configuration the
\* aggregator holds, nor the engines of the host, nor ledger and adapters.
C32_AvailabilityQuery ==
    /\ [](checking =>
            /\ returned.status # "rejected"
            /\ pc = "done" =>
                   /\ returned.status = "fulfilled"
                   /\ DOMAIN returned.value = {"slither", "mythril"}
                   /\ returned.value.slither \in BOOLEAN
                   /\ returned.value.mythril \in BOOLEAN
                   /\ env.stable =>
                          returned.value = [slither |-> env.slither,
                                            mythril |-> env.mythril])
    /\ [][((checking \/ checking') /\ avars' # avars)
              => /\ results' = results
                 /\ config' = config
                 /\ env'.slither = env.slither
                 /\ env'.mythril = env.mythril
                 /\ UNCHANGED <<logVars, adapter>>]_<<avars, hostVars>>

\* on a host with slither alone, unchanged since the call began, the call
\* has settled with slither available and mythril not
C32_Witness ==
    /\ checking
    /\ pc = "done"
    /\ env.stable
    /\ env.slither /\ ~env.mythril
    /\ returned = [status |-> "fulfilled",
                   value |-> [slither |-> TRUE, mythril |-> FALSE]]

\* C33 (as stated): submitAuditReport called by a holder of the Auditor role
\* while the ledger is not paused succeeds, for every contract address and
\* every four counts.
C33_AuditorAlwaysSucceeds ==
    \A p \in Principals, i \in SubmitInputs :
        (hasRole(AUDITOR_ROLE, p) /\ ~paused)
            => submitAuditReportOutcome(p, i[1], i[2]) = OK

\* C33 (amended): submitAuditReport called by a holder of the Auditor role
\* while the ledger is not paused succeeds exactly when the address is not
\* zero and the sum of the four counts fits a uint256; it is rejected with
\* "Invalid contract address" for the zero address and with the overflow
\* panic for counts whose sum does not fit; and no step adds a report to the
\* history of the zero address or a report whose total exceeds the maximum.
C33_AuditorSucceedsOnValidInput ==
    /\ [](\A p \in Principals, i \in SubmitInputs :
            (hasRole(AUDITOR_ROLE, p) /\ ~paused)
                => LET outcome == submitAuditReportOutcome(p, i[1], i[2])
                       total == i[2][1] + i[2][2] + i[2][3] + i[2][4]
                   IN  /\ outcome = OK <=> (i[1] # ZeroAddress /\ total <= MaxUint)
                       /\ i[1] = ZeroAddress => outcome = ErrInvalidAddress
                       /\ (i[1] # ZeroAddress /\ total > MaxUint)
                              => outcome = ErrOverflow)
    /\ [][\A c \in Addresses :
             Len(auditReports'[c]) > Len(auditReports[c])
                 => /\ c # ZeroAddress
                    /\ ~paused
                    /\ LET report == auditReports'[c][Len(auditReports'[c])]
                       IN  /\ hasRole(AUDITOR_ROLE, report.auditor)
                           /\ report.totalVulnerabilities <= MaxUint]_vars

\* an auditor other than the deployer has a report stored on an unpaused
\* ledger, where a report for the zero address and one with counts that do
\* not fit are rejected with their own errors
C33_Witness ==
    \E p \in Principals \ {Deployer} :
        /\ hasRole(AUDITOR_ROLE, p)
        /\ ~paused
        /\ \E c \in Contracts :
               Len(auditReports[c]) > 0 /\ latestAuditReport(c).auditor = p
        /\ submitAuditReportOutcome(p, ZeroAddress, <<1, 0, 0, 0>>)
               = ErrInvalidAddress
        /\ submitAuditReportOutcome(p, 1, <<0, 0, MaxUint, 1>>) = ErrOverflow

\* C34: getContractVulnerabilities(C) returns exactly the ids of the records
\* targeting C, each once and in increasing order (the empty list when there
\* is none), and no verifyVulnerability or resolveVulnerability changes the
\* result for any address.  (The result is read from the records and their
\* count: a step that leaves both alone leaves it alone.)
C34_ContractVulnerabilities ==
    /\ [](\A c \in Addresses :
            LET ids == getContractVulnerabilities(c)
                targeting == {id \in Ids : vuln(id).contractAddress = c}
            IN  /\ {ids[k] : k \in 1..Len(ids)} = targeting
                /\ Len(ids) = Cardinality(targeting)
                /\ \A j, k \in 1..Len(ids) : j < k => ids[j] < ids[k]
                /\ targeting = {} => ids = <<>>)
    /\ [][UNCHANGED <<vulnerabilities, vulnerabilityCount>> \/
          ((\E p \in Principals, id \in IdInputs :
               VerifyVulnerability(p, id) \/ ResolveVulnerability(p, id))
            => \A c \in Addresses :
                  getContractVulnerabilities(c)' = getContractVulnerabilities(c))]_vars

\* two records of different contracts, the later one verified and resolved:
\* each contract's list holds its own id
C34_Witness ==
    /\ vulnerabilityCount = 2
    /\ getContractVulnerabilities(2) = <<0>>
    /\ getContractVulnerabilities(1) = <<1>>
    /\ getContractVulnerabilities(ZeroAddress) = <<>>
    /\ vuln(1).verified /\ vuln(1).resolved

\* C35 (as stated): the deployer starts with Admin, Auditor and Reporter and
\* every other principal with no role; no call made by a principal adds a
\* role to that same principal, and a role is gained only through a grant
\* made by another principal holding Admin.
C35_NoSelfGrant ==
    /\ \A r \in Roles : roles[r] = {Deployer}
    /\ [][\A r \in Roles, a \in Principals :
             a \in roles'[r] \ roles[r]
                 => /\ ~GrantRole(a, r, a)
                    /\ \E p \in Principals \ {a} :
                          hasRole(DEFAULT_ADMIN_ROLE, p) /\ GrantRole(p, r, a)]_vars

\* C35 (amended): the deployer starts with Admin, Auditor and Reporter and
\* every other principal with no role; no call made by a principal who does
\* not hold Admin adds a role to anybody, that principal included, and a
\* role is gained only through a grantRole made by a principal holding
\* Admin, who may be the gaining principal itself.
C35_NoEscalationWithoutAdmin ==
    /\ \A r \in Roles : roles[r] = {Deployer}
    /\ [][\A r \in Roles, a \in Principals :
             /\ \A p \in Principals :
                    (GrantRole(p, r, a) /\ a \in roles'[r] \ roles[r])
                        => hasRole(DEFAULT_ADMIN_ROLE, p)
             /\ a \in roles'[r] \ roles[r]
                    => \E p \in Principals :
                          hasRole(DEFAULT_ADMIN_ROLE, p) /\ GrantRole(p, r, a)]_vars

\* alice was made Admin and Auditor, and the deployer, whose Reporter and
\* Admin roles were revoked, is left with Auditor only
C35_Witness ==
    /\ roles[DEFAULT_ADMIN_ROLE] = {"alice"}
    /\ roles[AUDITOR_ROLE] = {Deployer, "alice"}
    /\ roles[REPORTER_ROLE] = {}

\* the events that carry a contract address
addressed ==
    {k \in 1..Len(events) :
        events[k].params.event \in
            {"VulnerabilityReported", "AuditReportSubmitted",
             "ContractBlacklisted", "ContractWhitelisted"}}

\* C36: once the indexer has handled every event in order, the Contract
\* entity of every contract occurring in an event has the ledger's blacklist
\* flag, every indexed Vulnerability has the ledger's verified and resolved
\* flags, and the two events of a Critical report (VulnerabilityReported,
\* then ContractBlacklisted) leave the indexed contract blacklisted.
C36_IndexRefinesLedger ==
    /\ \A k \in addressed :
           LET c == events[k].params.contractAddress IN
           /\ toHexString(c) \in DOMAIN index.contracts
           /\ index.contracts[toHexString(c)].isBlacklisted
                  = blacklistedContracts[c]
    /\ \A id \in DOMAIN index.vulnerabilities :
           LET entity == index.vulnerabilities[id] IN
           /\ entity.vulnerabilityId \in Ids
           /\ entity.verified = vuln(entity.vulnerabilityId).verified
           /\ entity.resolved = vuln(entity.vulnerabilityId).resolved
    /\ \A k \in 1..(Len(events) - 1) :
           (/\ events[k].params.event = "VulnerabilityReported"
            /\ events[k].params.severity = CRITICAL
            /\ events[k + 1].params.event = "ContractBlacklisted")
               => LET c == events[k].params.contractAddress
                      handled == replay(SubSeq(events, 1, k + 1))
                  IN  /\ events[k + 1].params.contractAddress = c
                      /\ handled.contracts[toHexString(c)].isBlacklisted

\* a Critical report of contract 1, then verified: the read model has the
\* contract blacklisted and the record verified and unresolved
C36_Witness ==
    /\ Len(events) = 3
    /\ events[1].params.event = "VulnerabilityReported"
    /\ events[1].params.contractAddress = 1
    /\ events[2].params.event = "ContractBlacklisted"
    /\ events[3].params.event = "VulnerabilityVerified"
    /\ index.contracts[toHexString(1)].isBlacklisted
    /\ blacklistedContracts[1]
    /\ index.vulnerabilities["0"].verified
    /\ ~index.vulnerabilities["0"].resolved

\* C37: the blacklist flag of a contract C goes from false to true only in a
\* successful Critical report targeting C, a successful submitAuditReport
\* for C with critical > 0 or a successful blacklistContract(C), and from
\* true to false only in a successful whitelistContract(C); a report of a
\* lower severity, a submitAuditReport with critical = 0, verify, resolve,
\* pause and unpause change no flag.
C37_BlacklistFrame ==
    [][blacklistedContracts' = blacklistedContracts \/
       /\ \A c \in Addresses :
              /\ (~blacklistedContracts[c] /\ blacklistedContracts'[c])
                     => \E p \in Principals :
                           \/ \E i \in ReportInputs, t \in TypeInputs,
                                 now \in Timestamps :
                                 /\ i[1] = c /\ i[2] = CRITICAL
                                 /\ reportVulnerabilityOutcome(p, c, i[3]) = OK
                                 /\ ReportVulnerability(p, c, t, CRITICAL, i[3], now)
                           \/ \E i \in SubmitInputs, now \in Timestamps :
                                 /\ i[1] = c /\ i[2][1] > 0
                                 /\ submitAuditReportOutcome(p, c, i[2]) = OK
                                 /\ SubmitAuditReport(p, c, i[2][1], i[2][2],
                                                      i[2][3], i[2][4], now)
                           \/ /\ blacklistContractOutcome(p) = OK
                              /\ BlacklistContract(p, c)
              /\ (blacklistedContracts[c] /\ ~blacklistedContracts'[c])
                     => \E p \in Principals :
                           /\ whitelistContractOutcome(p) = OK
                           /\ WhitelistContract(p, c)
       \* the step that changes a flag is none of the calls that change none:
       \* it stores no record below Critical and no report without a critical
       \* finding, sets no verified or resolved flag and leaves paused alone
       /\ \A k \in (Len(vulnerabilities) + 1)..Len(vulnerabilities') :
              vulnerabilities'[k].severity = CRITICAL
       /\ \A c \in Addresses :
              \A k \in (Len(auditReports[c]) + 1)..Len(auditReports'[c]) :
                  auditReports'[c][k].criticalCount > 0
       /\ \A k \in 1..Len(vulnerabilities) :
              /\ vulnerabilities'[k].verified = vulnerabilities[k].verified
              /\ vulnerabilities'[k].resolved = vulnerabilities[k].resolved
       /\ paused' = paused]_vars

\* contract 1 was blacklisted and whitelisted again while contract 2, flagged
\* by a Critical report that was then verified and resolved, stays listed
C37_Witness ==
    /\ ~blacklistedContracts[1]
    /\ blacklistedContracts[2]
    /\ vulnerabilityCount = 2
    /\ vuln(0).contractAddress = 1 /\ vuln(0).severity = CRITICAL
    /\ vuln(1).contractAddress = 2 /\ vuln(1).severity = CRITICAL
    /\ vuln(1).verified /\ vuln(1).resolved
    /\ paused

\* C38: when a result of an engine entering the merge is not secure, the
\* combined result of getCombinedAnalysis is not secure: for every CRITICAL
\* or HIGH finding of an engine, the finding the combined list keeps for its
\* (category, description) has no lower severity.
C38_InsecureStaysInsecure ==
    combinedReturned =>
        LET out == returned.value.vulnerabilities
            all == allVulnerabilities(results)
        IN  /\ (\E k \in 1..Len(results) : ~results[k].isSecure)
                   => ~returned.value.isSecure
            /\ \A n \in 1..Len(all) :
                   all[n].severity \in {"CRITICAL", "HIGH"}
                       => \E i \in 1..Len(out) :
                             /\ pairOf(out[i]) = pairOf(all[n])
                             /\ severityRank[out[i].severity]
                                    >= severityRank[all[n].severity]

\* C39: in scanContract the audit record is saved IN_PROGRESS and then
\* reaches exactly one of COMPLETED and FAILED: a COMPLETED record is never
\* set to FAILED afterwards (nor a FAILED one to COMPLETED), and the success
\* response is sent exactly when the final status is COMPLETED.
C39_AuditLifecycle ==
    /\ [][\A r \in Requests :
             /\ (r \notin DOMAIN audits /\ r \in DOMAIN audits')
                    => audits'[r].status = AuditStatus.IN_PROGRESS
             /\ (/\ r \in DOMAIN audits
                 /\ audits[r].status
                        \in {AuditStatus.COMPLETED, AuditStatus.FAILED})
                    => audits'[r].status = audits[r].status]_dbVars
    /\ \A r \in Requests :
           (r \in DOMAIN audits)
               ~> (r \in DOMAIN audits
                      /\ audits[r].status
                             \in {AuditStatus.COMPLETED, AuditStatus.FAILED})
    /\ [](\A r \in Requests :
             (r \in DOMAIN audits /\ requests[r].pc = "done")
                 => (requests[r].response.success
                        <=> audits[r].status = AuditStatus.COMPLETED))

\* every request that arrived has been answered
allAnswered == \A r \in Requests : requests[r].pc \in {"idle", "done"}

\* C40: whatever the interleaving of concurrent scanContract requests for
\* one address, once all of them are answered there is one Contract record
\* of the address, its totalAudits is the number of completed scans of the
\* address, and no request failed on creating the record a second time.
C40_NoLostUpdate ==
    allAnswered =>
        /\ \A r \in Requests :
               requests[r].response.error # ErrDuplicateKey
        /\ \A a \in ScanAddresses \ {""} :
               LET address == toLowerCase(a)
                   completed ==
                       {r \in DOMAIN audits :
                           /\ audits[r].contractAddress = address
                           /\ audits[r].status = AuditStatus.COMPLETED}
               IN  completed # {}
                       => /\ DOMAIN contractCollection = {address}
                          /\ contractCollection[address].totalAudits
                                 = Cardinality(completed)

====
